---- MODULE Spec2Model ----
(***************************************************************************)
(* Model of the customer feedback pipeline                                 *)
(* (src/src/pipeline/customer_feedback_pipeline.py) together with the      *)
(* helpers it calls: utils/metrics.py, utils/generate_sample.py and the    *)
(* text cleaning of scripts/generate_insights.py.                          *)
(*                                                                         *)
(* A cell of a table is an optional value: Null (None / NaN) or Some(v).   *)
(* A text is a sequence of one-character strings.  A data frame is a       *)
(* record [cols, rows]; a row is a function from column name to cell.      *)
(* A pipeline attribute that holds None is Null, otherwise Some(frame).    *)
(***************************************************************************)
EXTENDS Integers, Sequences, FiniteSets, TLC

VARIABLES
    source,        \* the file at data_path: [exists, frame]
    cfg_n_themes,  \* config['n_themes'] as given to the constructor
    n_themes,      \* self.n_themes
    method,        \* self.method
    df,            \* self.df
    df_processed,  \* self.df_processed
    themes,        \* self.themes : bank name -> list of themes
    out,           \* files written below out_dir by the last save_outputs
    fit,           \* get_themes_by_bank as the last call invoked it: [requested, used, on]
    scored,        \* some compute_sentiment call has returned normally
    steps,         \* the orchestrator methods executed by the last call
    last,          \* the last public call: [op, ok]
    calls,         \* number of public calls made so far
    summary,       \* the table aggregate_sentiment_by_bank_rating last returned
    error,         \* the exception that ended the last call, if it raised
    persisted,     \* the dataset as it was in memory when save_outputs wrote it
    reloaded,      \* the table load_processed last returned
    value,         \* a value given to clean_text
    cleaned,       \* clean_text(value)
    recleaned,     \* clean_text(clean_text(value))
    corpus,        \* a table given to TextAnalyzer.get_themes_by_bank
    by_bank,       \* [n, themes]: the mapping it returned for n_themes = n
    earlier,       \* [call, themes]: the extraction before the last one
    table,         \* a table given to a function of utils/metrics.py
    column,        \* the score_col or theme_col given with it
    fraction,      \* what evaluate_sentiment_coverage(table, column) returned
    theme_counts,  \* what summarize_theme_counts(table, 'bank_name', column) returned
    env,           \* [joblib, unfit]: whether joblib was imported, and the banks
                   \* whose model fit or dump raises
    raw_reviews,   \* the file at ReviewPreprocessor.input_path: [exists, readable, frame]
    preprocessor,  \* a ReviewPreprocessor and its call of process(): [df, stats,
                   \* stage, ran, returned, reported]
    processed_reviews  \* the file at ReviewPreprocessor.output_path

vars == <<source, cfg_n_themes, n_themes, method, df, df_processed, themes,
          out, fit, scored, steps, last, calls, summary, error, persisted,
          reloaded, value, cleaned, recleaned, corpus, by_bank, earlier,
          table, column, fraction, theme_counts, env, raw_reviews, preprocessor,
          processed_reviews>>

----------------------------------------------------------------------------
(* Bounds of the model *)

MaxRows == 10      \* rows of the file at data_path
MaxBad == 2        \* rows of it whose text cleans to the empty string
MaxCalls == 2      \* public calls on one pipeline object
MaxFrags == 3      \* fragments that make up a text given to clean_text
MaxTopics == 3     \* n_themes given to get_themes_by_bank directly
MaxThemeRows == 2  \* rows of a table given to summarize_theme_counts directly
MaxReviews == 2    \* rows of the file at ReviewPreprocessor.input_path

----------------------------------------------------------------------------
(* Optional values *)

Null == <<>>
Some(v) == <<v>>
IsNull(x) == Len(x) = 0
NotNull(x) == Len(x) = 1
Val(x) == x[1]

Min(a, b) == IF a <= b THEN a ELSE b

Range(s) == {s[i] : i \in DOMAIN s}

----------------------------------------------------------------------------
(* Text cleaning: generate_insights.clean_text *)

UpperCase == <<"A","B","C","D","E","F","G","H","I","J","K","L","M",
               "N","O","P","Q","R","S","T","U","V","W","X","Y","Z">>
LowerCase == <<"a","b","c","d","e","f","g","h","i","j","k","l","m",
               "n","o","p","q","r","s","t","u","v","w","x","y","z">>
Digits == {"0","1","2","3","4","5","6","7","8","9"}
WhiteSpace == {" ", "\t", "\n"}

\* str.lower() on one character
LowerChar(c) ==
    IF \E i \in DOMAIN UpperCase : UpperCase[i] = c
    THEN LowerCase[CHOOSE i \in DOMAIN UpperCase : UpperCase[i] = c]
    ELSE c

Lower(s) == [i \in DOMAIN s |-> LowerChar(s[i])]

HasPrefixAt(s, i, p) ==
    /\ i + Len(p) - 1 <= Len(s)
    /\ \A k \in DOMAIN p : s[i + k - 1] = p[k]

\* length of the scheme "http://" or "https://" starting at i, 0 if none
SchemeLenAt(s, i) ==
    IF HasPrefixAt(s, i, <<"h","t","t","p",":","/","/">>) THEN 7
    ELSE IF HasPrefixAt(s, i, <<"h","t","t","p","s",":","/","/">>) THEN 8
    ELSE 0

\* first position >= i holding white space, Len(s) + 1 if none
RECURSIVE NextSpace(_, _)
NextSpace(s, i) ==
    IF i > Len(s) \/ s[i] \in WhiteSpace THEN i ELSE NextSpace(s, i + 1)

\* re.sub(r"https?://\S+", "", s), scanning from position i
RECURSIVE StripUrlsFrom(_, _)
StripUrlsFrom(s, i) ==
    IF i > Len(s) THEN <<>>
    ELSE LET n == SchemeLenAt(s, i)
             e == NextSpace(s, i + n)
         IN  IF n > 0 /\ e > i + n
             THEN StripUrlsFrom(s, e)
             ELSE <<s[i]>> \o StripUrlsFrom(s, i + 1)

StripUrls(s) == StripUrlsFrom(s, 1)

IsAlnumLower(c) == c \in Digits \/ \E i \in DOMAIN LowerCase : LowerCase[i] = c

\* BlankNonAlnum deleting the characters instead: re.sub(r"[^a-z0-9\s]", "", s)
DeleteNonAlnum(s) ==
    LET Kept(c) == IsAlnumLower(c) \/ c \in WhiteSpace
    IN  SelectSeq(s, Kept)

\* re.sub(r"[^a-z0-9\s]", " ", s)
BlankNonAlnum(s) ==
    [i \in DOMAIN s |-> IF IsAlnumLower(s[i]) \/ s[i] \in WhiteSpace THEN s[i] ELSE " "]

\* re.sub(r"\s+", " ", s).strip(): `pending` says that white space was seen
\* since the last kept character
RECURSIVE CollapseFrom(_, _, _, _)
CollapseFrom(s, i, pending, started) ==
    IF i > Len(s) THEN <<>>
    ELSE IF s[i] \in WhiteSpace THEN CollapseFrom(s, i + 1, started, started)
    ELSE (IF pending THEN <<" ">> ELSE <<>>) \o <<s[i]>> \o CollapseFrom(s, i + 1, FALSE, TRUE)

\* s.replace("  ", " "), scanning from position i
RECURSIVE ReplacePairsFrom(_, _)
ReplacePairsFrom(s, i) ==
    IF i > Len(s) THEN <<>>
    ELSE IF i < Len(s) /\ s[i] = " " /\ s[i + 1] = " "
         THEN <<" ">> \o ReplacePairsFrom(s, i + 2)
         ELSE <<s[i]>> \o ReplacePairsFrom(s, i + 1)

\* CollapseAndStrip as s.replace("  ", " ").strip()
CollapsePairsOnce(s) ==
    LET t == ReplacePairsFrom(s, 1)
        kept == {i \in DOMAIN t : t[i] \notin WhiteSpace}
    IN  IF kept = {} THEN <<>>
        ELSE SubSeq(t, CHOOSE i \in kept : \A j \in kept : i <= j,
                       CHOOSE i \in kept : \A j \in kept : i >= j)

CollapseAndStrip(s) == CollapseFrom(s, 1, FALSE, FALSE)

\* the cleaning of a string
CleanString(s) == CollapseAndStrip(BlankNonAlnum(StripUrls(Lower(s))))

----------------------------------------------------------------------------
(* Words of a cleaned text *)

RECURSIVE SplitFrom(_, _, _)
SplitFrom(s, i, cur) ==
    IF i > Len(s) THEN (IF cur = <<>> THEN <<>> ELSE <<cur>>)
    ELSE IF s[i] \in WhiteSpace
         THEN (IF cur = <<>> THEN <<>> ELSE <<cur>>) \o SplitFrom(s, i + 1, <<>>)
         ELSE SplitFrom(s, i + 1, Append(cur, s[i]))

Split(s) == SplitFrom(s, 1, <<>>)

----------------------------------------------------------------------------
(* Program constants *)

SampleN == 500          \* generate_sample_reviews(n=500)
DefaultNThemes == 5     \* config.get('n_themes', 5)
CoverageNum == 9        \* the threshold 0.9 as the fraction
CoverageDen == 10       \*   CoverageNum / CoverageDen
PrimaryKeywords == 5    \* bank_themes[0][:5]
NTopWords == 8          \* n_top_words=8
TestSampleN == 30       \* generate_sample_reviews(n=30)

RequiredColumns == {"review_text", "rating", "bank_name"}

\* generate_sample.banks
banks == <<"Commercial Bank of Ethiopia", "Bank of Abyssinia", "Dashen Bank">>

\* generate_sample.sample_texts
sample_texts == <<
       <<"A","p","p"," ","c","r","a","s","h","e","s"," ","w","h","e","n"," ","s","e","n","d","i","n","g"," ","m","o","n","e","y">>,
       <<"L","o","g","i","n"," ","f","a","i","l","e","d"," ","m","u","l","t","i","p","l","e"," ","t","i","m","e","s">>,
       <<"V","e","r","y"," ","f","a","s","t"," ","t","r","a","n","s","f","e","r","s"," ","a","n","d"," ","e","a","s","y"," ","t","o"," ","u","s","e">>,
       <<"S","l","o","w"," ","U","I"," ","a","n","d"," ","o","c","c","a","s","i","o","n","a","l"," ","t","i","m","e","o","u","t","s">>,
       <<"C","u","s","t","o","m","e","r"," ","s","u","p","p","o","r","t"," ","w","a","s"," ","h","e","l","p","f","u","l">>,
       <<"P","a","y","m","e","n","t"," ","f","a","i","l","e","d"," ","b","u","t"," ","r","e","f","u","n","d","e","d"," ","l","a","t","e","r">>,
       <<"G","r","e","a","t"," ","a","p","p",","," ","l","o","v","e"," ","t","h","e"," ","d","e","s","i","g","n">>,
       <<"B","u","g"," ","w","h","e","n"," ","u","p","l","o","a","d","i","n","g"," ","I","D"," ","d","o","c","u","m","e","n","t","s">>,
       <<"F","i","n","g","e","r","p","r","i","n","t"," ","l","o","g","i","n"," ","n","o","t"," ","w","o","r","k","i","n","g">>,
       <<"C","a","n","n","o","t"," ","l","i","n","k"," ","b","a","n","k"," ","a","c","c","o","u","n","t">> >>

----------------------------------------------------------------------------
(* Data frames *)

Frame(cols, rows) == [cols |-> cols, rows |-> rows]

NRows(f) == Len(f.rows)

\* df[c] = ... : the column c of every row becomes F(row)
SetCol(f, c, F(_)) ==
    Frame(f.cols \cup {c},
          [i \in DOMAIN f.rows |->
              [k \in f.cols \cup {c} |-> IF k = c THEN F(f.rows[i]) ELSE f.rows[i][k]]])

\* row.get(c)
Get(row, c) == IF c \in DOMAIN row THEN row[c] ELSE Null

\* the frame restricted to the columns cs
Project(f, cs) ==
    Frame(f.cols \cap cs, [i \in DOMAIN f.rows |-> [k \in f.cols \cap cs |-> f.rows[i][k]]])

\* DataFrame.to_csv: a null cell and an empty string are both written as an
\* empty field
TextColumns == {"review_text", "review_text_preprocessed", "identified_theme"}

to_csv(f) ==
    Frame(f.cols,
          [i \in DOMAIN f.rows |->
              [k \in f.cols |-> IF k \in TextColumns /\ f.rows[i][k] = Some(<<>>)
                                THEN Null ELSE f.rows[i][k]]])

\* the fields pd.read_csv reads as a null cell (its default na_values), as
\* texts and as names
NaTexts == {
    <<"#","N","/","A">>,
    <<"#","N","/","A"," ","N","/","A">>,
    <<"#","N","A">>,
    <<"-","1",".","#","I","N","D">>,
    <<"-","1",".","#","Q","N","A","N">>,
    <<"-","N","a","N">>,
    <<"-","n","a","n">>,
    <<"1",".","#","I","N","D">>,
    <<"1",".","#","Q","N","A","N">>,
    <<"<","N","A",">">>,
    <<"N","/","A">>,
    <<"N","A">>,
    <<"N","U","L","L">>,
    <<"N","a","N">>,
    <<"N","o","n","e">>,
    <<"n","/","a">>,
    <<"n","a","n">>,
    <<"n","u","l","l">>,
    <<>>}
NaWords == {"#N/A", "#N/A N/A", "#NA", "-1.#IND", "-1.#QNAN", "-NaN", "-nan", "1.#IND", "1.#QNAN", "<NA>", "N/A", "NA", "NULL", "NaN", "None", "n/a", "nan", "null", ""}

NameColumns == {"bank_name", "sentiment_label"}

\* pd.read_csv: a field that is empty or one of the na_values is read as a
\* null cell, every other field as it was written
read_csv(file) ==
    Frame(file.cols,
          [i \in DOMAIN file.rows |->
              [k \in file.cols |->
                  LET cell == file.rows[i][k]
                  IN  IF IsNull(cell) THEN Null
                      ELSE IF k \in TextColumns /\ Val(cell) \in NaTexts THEN Null
                      ELSE IF k \in NameColumns /\ Val(cell) \in NaWords THEN Null
                      ELSE cell]])

----------------------------------------------------------------------------
(* The reviews a run can be given *)

GoodTexts == <<
    <<"O","K"," ","a","p","p">>,
    <<"B","a","d"," "," ","u","i","!">>,
    <<"o","k"," ","f","a","s","t"," ","p","a","y"," ","a","p","p">>,
    <<"b","a","d"," ","s","l","o","w"," ","l","o","g","i","n"," ","c","r","a","s","h"," ","u","i">>,
    <<"L","o","g","i","n"," ","F","A","I","L","E","D","!","!"," ","a","g","a","i","n"," ","h","t","t","p",":","/","/","x",".","c","o">> >>

\* a text that cleans to the empty string
JunkText == <<"!","!">>

\* a character on which the cleaning of a text raises
BadChar == "<U+D800>"
MalformedText == <<"o","k",BadChar>>

\* Row i of the file with n rows, of which the first u have a text that
\* cleans to '' and, when m = 1, the last has a text on which cleaning raises.
FileRow(i, n, u, m) ==
    [review_id |-> Some(i),
     review_text |-> IF i <= u THEN (IF i % 2 = 1 THEN Null ELSE Some(JunkText))
                     ELSE IF m = 1 /\ i = n THEN Some(MalformedText)
                     ELSE Some(GoodTexts[((i - 1) % Len(GoodTexts)) + 1]),
     rating |-> Some(((i - 1) % 5) + 1),
     bank_name |-> IF i <= u /\ i % 2 = 1 THEN Some(banks[3])
                   ELSE Some(banks[((i - 1) % 2) + 1])]

\* a text whose cleaning is one of the na_values of pd.read_csv
NaWordText == <<"N","u","l","l">>

\* CleanString tabulated over the texts of the model
KnownTexts == Range(sample_texts) \cup Range(GoodTexts) \cup {JunkText, NaWordText}
CleanTable == [t \in KnownTexts |-> CleanString(t)]

\* a value that is not a str and not None, such as a number
NotAString == <<"<float>">>

\* clean_text on a cell: a null (non-string) cell gives '', a string its cleaning
clean_text(x) ==
    IF IsNull(x) \/ Val(x) = NotAString THEN <<>>
    ELSE IF Val(x) \in KnownTexts THEN CleanTable[Val(x)] ELSE CleanString(Val(x))

FullColumns == {"review_id", "review_text", "rating", "bank_name"}

File(n, u, m) == Frame(FullColumns, [i \in 1..n |-> FileRow(i, n, u, m)])

\* The file at data_path: 0, 1, MaxRows - 1 or MaxRows rows, of which up to
\* MaxBad clean to ''; or MaxRows rows with a malformed last row; or a file
\* without the rating and bank columns; or FileWithNaWord.
RowCounts == {0, 1, MaxRows - 1, MaxRows}

\* MaxRows rows of which the last is the only review of its bank and has the
\* text NaWordText
FileWithNaWord ==
    Frame(FullColumns,
          [i \in 1..MaxRows |->
              IF i = MaxRows
              THEN [FileRow(i, MaxRows, 0, 0) EXCEPT !.review_text = Some(NaWordText),
                                                      !.bank_name = Some(banks[3])]
              ELSE FileRow(i, MaxRows, 0, 0)])

Files ==
    {File(n, u, 0) : n \in RowCounts, u \in 0..MaxBad} \cup
    {File(MaxRows, 0, 1)} \cup
    {Project(File(MaxRows, 0, 0), {"review_id", "review_text"})} \cup
    {FileWithNaWord}

Sources == {[exists |-> TRUE, frame |-> f] : f \in Files}

\* no file at data_path
Absent == [exists |-> FALSE, frame |-> Frame({}, <<>>)]

\* generate_sample_reviews(n): the random draws are replaced by one fixed
\* draw, row i taking text, rating and bank in rotation
generate_sample_reviews(n) ==
    Frame({"review_id", "review_text", "rating", "date", "bank_name"},
          [i \in 1..n |->
              [review_id |-> Some(i),
               review_text |-> Some(sample_texts[((i - 1) % Len(sample_texts)) + 1]),
               rating |-> Some(((i - 1) % 5) + 1),
               date |-> Some(i % 365),
               bank_name |-> Some(banks[((i - 1) % Len(banks)) + 1])]])

----------------------------------------------------------------------------
(* utils/metrics.py *)

\* evaluate_sentiment_coverage taking a table without rows as fully scored
evaluate_sentiment_coverage_vacuous(f, score_col) ==
    IF score_col \notin f.cols THEN [num |-> 0, den |-> 1]
    ELSE IF NRows(f) = 0 THEN [num |-> 1, den |-> 1]
    ELSE [num |-> Cardinality({i \in DOMAIN f.rows : NotNull(f.rows[i][score_col])}),
          den |-> NRows(f)]

\* evaluate_sentiment_coverage counting every row as scored
evaluate_sentiment_coverage_of_rows(f, score_col) ==
    IF score_col \notin f.cols THEN [num |-> 0, den |-> 1]
    ELSE IF NRows(f) = 0 THEN [num |-> 0, den |-> 1]
    ELSE [num |-> NRows(f), den |-> NRows(f)]

\* evaluate_sentiment_coverage: the fraction non_null / total as [num, den];
\* 0.0 is [num |-> 0, den |-> 1]
evaluate_sentiment_coverage(f, score_col) ==
    IF score_col \notin f.cols THEN [num |-> 0, den |-> 1]
    ELSE IF NRows(f) = 0 THEN [num |-> 0, den |-> 1]
    ELSE [num |-> Cardinality({i \in DOMAIN f.rows : NotNull(f.rows[i][score_col])}),
          den |-> NRows(f)]

\* a theme cell that holds a list or tuple of themes, each a cell
ListOf(items) == <<"<list>">> \o items
IsList(v) == Len(v) > 0 /\ v[1] = "<list>"
Items(v) == Tail(v)

\* summarize_theme_counts: the rows of the table it returns.  groupby leaves
\* out the rows without a bank and, in the second grouping, the elements of
\* a list that are None; an occurrence is <<row, position, bank, theme>>.
summarize_theme_counts(f, bank_col, theme_col) ==
    IF bank_col \notin f.cols \/ theme_col \notin f.cols THEN {}
    ELSE LET Grouped == {i \in DOMAIN f.rows :
                            NotNull(f.rows[i][bank_col]) /\ NotNull(f.rows[i][theme_col])}
             Bank(i) == Val(f.rows[i][bank_col])
             Theme(i) == Val(f.rows[i][theme_col])
             Single == {<<i, 0, Bank(i), Theme(i)>> : i \in {j \in Grouped : ~IsList(Theme(j))}}
             Listed == UNION {{<<i, k, Bank(i), Val(Items(Theme(i))[k])>> :
                                  k \in {l \in DOMAIN Items(Theme(i)) :
                                             NotNull(Items(Theme(i))[l])}} :
                              i \in {j \in Grouped : IsList(Theme(j))}}
             rows == Single \cup Listed
         IN  {[bank |-> p[1], theme |-> p[2],
               count |-> Cardinality({r \in rows : r[3] = p[1] /\ r[4] = p[2]})] :
                 p \in {<<r[3], r[4]>> : r \in rows}}

\* coverage >= 0.9
MeetsThreshold(c) == c.num * CoverageDen >= CoverageNum * c.den

----------------------------------------------------------------------------
(* pipeline/preprocessing.py and pipeline/sentiment.py, as section 4.1 and *)
(* 4.2 of the specification describe them                                  *)

CleaningRaises(x) == NotNull(x) /\ BadChar \in Range(Val(x))

\* the raw text coerced to a string, '' when it is null
RawAsString(x) == IF IsNull(x) THEN Some(<<>>) ELSE x

\* preprocess_dataframe when no exception leaves it: every row is cleaned on
\* its own, a row whose cleaning raises keeps its raw text
preprocess_dataframe(f, text_col, out_col) ==
    LET CleanRow(row) == IF CleaningRaises(Get(row, text_col))
                         THEN RawAsString(Get(row, text_col))
                         ELSE Some(clean_text(Get(row, text_col)))
    IN  SetCol(f, out_col, CleanRow)

\* an exception can leave preprocess_dataframe only when some row's cleaning
\* raises
PreprocessCanRaise(f, text_col) ==
    \E i \in DOMAIN f.rows : CleaningRaises(Get(f.rows[i], text_col))

Methods == {"vader", "textblob"}

PositiveWords == {<<"o","k">>, <<"f","a","s","t">>, <<"g","r","e","a","t">>,
                  <<"e","a","s","y">>, <<"l","o","v","e">>, <<"h","e","l","p","f","u","l">>}
NegativeWords == {<<"b","a","d">>, <<"s","l","o","w">>, <<"f","a","i","l","e","d">>,
                  <<"c","r","a","s","h">>, <<"c","r","a","s","h","e","s">>, <<"b","u","g">>}

WordPolarity(text) ==
    LET w == Split(text)
    IN  Cardinality({i \in DOMAIN w : w[i] \in PositiveWords})
          - Cardinality({i \in DOMAIN w : w[i] \in NegativeWords})

\* WordPolarity tabulated over the texts of the model, raw and cleaned
ScoredTexts == KnownTexts \cup {CleanTable[t] : t \in KnownTexts} \cup {MalformedText}
PolarityTable == [t \in ScoredTexts |-> WordPolarity(t)]

Polarity(text) == IF text \in ScoredTexts THEN PolarityTable[text] ELSE WordPolarity(text)

\* score in hundredths, clipped to [-100, 100]; no score for an empty text
Score(x, m) ==
    IF IsNull(x) \/ Val(x) = <<>> THEN Null
    ELSE LET raw == (IF m = "vader" THEN 40 ELSE 25) * Polarity(Val(x))
         IN  Some(IF raw > 100 THEN 100 ELSE IF raw < -100 THEN -100 ELSE raw)

\* the fixed thresholds of each method
Label(score, m) ==
    IF IsNull(score) THEN Null
    ELSE LET t == IF m = "vader" THEN 5 ELSE 10
         IN  Some(IF Val(score) >= t THEN "positive"
                  ELSE IF Val(score) <= -t THEN "negative" ELSE "neutral")

\* batch_sentiment labelling a review by the score of the review before it
batch_sentiment_shifted(f, text_col, out_score_col, out_label_col, m) ==
    LET ScoreRow(row) == Score(Get(row, text_col), m)
        Before(row) == f.rows[IF Val(row["review_id"]) > 1
                              THEN Val(row["review_id"]) - 1 ELSE 1]
        LabelRow(row) == Label(Score(Get(Before(row), text_col), m), m)
    IN  SetCol(SetCol(f, out_score_col, ScoreRow), out_label_col, LabelRow)

batch_sentiment(f, text_col, out_score_col, out_label_col, m) ==
    LET ScoreRow(row) == Score(Get(row, text_col), m)
        LabelRow(row) == Label(Score(Get(row, text_col), m), m)
    IN  SetCol(SetCol(f, out_score_col, ScoreRow), out_label_col, LabelRow)

----------------------------------------------------------------------------
(* pipeline/text_analysis.py, as section 4.3 of the specification          *)
(* describes it                                                            *)

\* the distinct non-null group values
Groups(f, bank_col) ==
    {Val(f.rows[i][bank_col]) : i \in {j \in DOMAIN f.rows : NotNull(f.rows[j][bank_col])}}

\* the non-empty texts of one group, in row order
Docs(f, text_col, bank_col, bank) ==
    LET Keep(row) == /\ row[bank_col] = Some(bank)
                     /\ NotNull(row[text_col])
                     /\ Val(row[text_col]) # <<>>
        kept == SelectSeq(f.rows, Keep)
    IN  [i \in 1..Len(kept) |-> Val(kept[i][text_col])]

\* the distinct elements of s, in order of first appearance
Distinct(s) ==
    LET FirstOf(v) == CHOOSE i \in DOMAIN s : s[i] = v /\ \A j \in 1..(i - 1) : s[j] # v
        firsts == {FirstOf(v) : v \in Range(s)}
        IsFirst(i) == i \in firsts
        order == SelectSeq([i \in 1..Len(s) |-> i], IsFirst)
    IN  [i \in 1..Len(order) |-> s[order[i]]]

\* the words of docs[i..], each once, in order of first appearance after acc
RECURSIVE VocabularyFrom(_, _, _)
VocabularyFrom(docs, i, acc) ==
    IF i > Len(docs) THEN acc
    ELSE VocabularyFrom(docs, i + 1, Distinct(acc \o Split(docs[i])))

Vocabulary(docs) == VocabularyFrom(Distinct(docs), 1, <<>>)

Rotate(s, r) == [i \in 1..Len(s) |-> s[((i - 1 + r) % Len(s)) + 1]]

\* fit_topic_model: as many components as the corpus supports, at most
\* n_topics; each component's n_top_words heaviest terms.  The factorization
\* is not seeded: `seed` is the outcome of one fit.
fit_topic_model(docs, n_topics, n_top_words, seed) ==
    LET vocab == Vocabulary(docs)
        k == Min(n_topics, Min(Len(docs), Len(vocab)))
    IN  [j \in 1..k |-> SubSeq(Rotate(vocab, seed + j - 1), 1, Min(n_top_words, Len(vocab)))]

\* get_themes_by_bank leaving out the groups without a text
get_themes_by_bank_skipping(f, text_col, bank_col, n, seed) ==
    [b \in {g \in Groups(f, bank_col) : Docs(f, text_col, bank_col, g) # <<>>} |->
        fit_topic_model(Docs(f, text_col, bank_col, b), n, NTopWords, seed)]

get_themes_by_bank(f, text_col, bank_col, n, seed) ==
    [b \in Groups(f, bank_col) |->
        fit_topic_model(Docs(f, text_col, bank_col, b), n, NTopWords, seed)]

\* invalid n_themes is rejected before fitting
RejectsNThemes(n) == n <= 0

----------------------------------------------------------------------------
(* CustomerFeedbackPipeline *)

EmptyThemes == [b \in {} |-> <<>>]

\* the attributes of the pipeline object, the output directory and the
\* table last returned by aggregate_sentiment_by_bank_rating
Self == [df |-> df, df_processed |-> df_processed, themes |-> themes, out |-> out,
         summary |-> summary, persisted |-> persisted]

\* an exception: its class, its message and the value the message carries
Exception(kind, message, measured) ==
    Some([kind |-> kind, message |-> message, measured |-> measured])

\* an attribute or item access on self.df / self.df_processed that is None
NoneAccess == Exception("AttributeError", "NoneType", Null)

\* The result of a method: the attributes as it leaves them, whether it
\* returned (ok) or raised, the exception, and its call of
\* get_themes_by_bank, if any.
Returned(o) == [obj |-> o, ok |-> TRUE, fit |-> Null, error |-> Null]
Raised(o, e) == [obj |-> o, ok |-> FALSE, fit |-> Null, error |-> e]

\* EnsureColumns overwriting the expected columns that exist
EnsureColumnsOverwrites(f) ==
    Frame(f.cols \cup RequiredColumns,
          [i \in DOMAIN f.rows |->
              [k \in f.cols \cup RequiredColumns |->
                  IF k \in RequiredColumns THEN Null ELSE f.rows[i][k]]])

\* the loop of load_data that adds the expected columns
EnsureColumns(f) ==
    Frame(f.cols \cup RequiredColumns,
          [i \in DOMAIN f.rows |->
              [k \in f.cols \cup RequiredColumns |->
                  IF k \in f.cols THEN f.rows[i][k] ELSE Null]])

LoadData(o) ==
    LET base == IF source.exists THEN read_csv(source.frame)
                ELSE generate_sample_reviews(SampleN)
    IN  Returned([o EXCEPT !.df = Some(EnsureColumns(base))])

\* x or y
Or(x, y) == IF IsNull(x) THEN y ELSE x

\* n_themes or self.n_themes: None and 0 are both falsy
NThemesOr(n_arg, n_self) == IF IsNull(n_arg) \/ Val(n_arg) = 0 THEN n_self ELSE Val(n_arg)

\* the except branch of compute_sentiment: the whole column is the raw text
FallbackColumn(f) ==
    LET RawRow(row) == RawAsString(Get(row, "review_text"))
    IN  SetCol(f, "review_text_preprocessed", RawRow)

\* CoverageGate with the assertion stripped
CoverageGateOff(coverage) == TRUE

\* assert coverage >= 0.9
CoverageGate(coverage) == MeetsThreshold(coverage)

\* f"{coverage:.2%}": the coverage in hundredths of a percent, rounded half
\* to even
Percent2(coverage) ==
    LET q == (10000 * coverage.num) \div coverage.den
        r == (10000 * coverage.num) % coverage.den
    IN  IF 2 * r > coverage.den \/ (2 * r = coverage.den /\ q % 2 = 1) THEN q + 1 ELSE q

\* CoverageError reporting the threshold instead of the measured coverage
CoverageErrorOfThreshold(coverage) ==
    Exception("AssertionError", "Sentiment coverage below required threshold",
              Some((10000 * CoverageNum) \div CoverageDen))

\* the AssertionError of the coverage gate, with its message
CoverageError(coverage) ==
    Exception("AssertionError", "Sentiment coverage below required threshold",
              Some(Percent2(coverage)))

\* the try statement of compute_sentiment on the dataset f; `propagates`:
\* the exception of a row's cleaning leaves preprocess_dataframe
Preprocessed(f, propagates) ==
    IF propagates /\ PreprocessCanRaise(f, "review_text")
    THEN FallbackColumn(f)
    ELSE preprocess_dataframe(f, "review_text", "review_text_preprocessed")

\* the coverage check of compute_sentiment, the attributes being o2
Gated(o2, coverage) ==
    IF CoverageGate(coverage) THEN Returned(o2) ELSE Raised(o2, CoverageError(coverage))

\* compute_sentiment from the assignment of self.df_processed on
ScoredWith(o, pre, res) ==
    Gated([o EXCEPT !.df = Some(pre), !.df_processed = Some(res)],
          evaluate_sentiment_coverage(res, "sentiment_score"))

\* compute_sentiment from the call of batch_sentiment on
ScoredFrom(o, pre, m) ==
    ScoredWith(o, pre, batch_sentiment(pre, "review_text_preprocessed",
                                   "sentiment_score", "sentiment_label", m))

ComputeSentiment(o, m_arg, propagates) ==
    IF IsNull(o.df) THEN Raised(o, NoneAccess)
    ELSE ScoredFrom(o, Preprocessed(Val(o.df), propagates), Val(Or(m_arg, Some(method))))

ExtractThemes(o, n_arg, seed) ==
    IF IsNull(o.df_processed) THEN Raised(o, NoneAccess)
    ELSE LET n == NThemesOr(n_arg, n_themes)
             f == Val(o.df_processed)
             text_col == IF "review_text_preprocessed" \in f.cols
                         THEN "review_text_preprocessed" ELSE "review_text"
             invoked == Some([requested |-> n_arg, used |-> n,
                              on |-> [i \in DOMAIN f.rows |->
                                         <<f.rows[i]["bank_name"], f.rows[i][text_col]>>]])
         IN  IF RejectsNThemes(n)
             THEN [obj |-> o, ok |-> FALSE, fit |-> invoked,
                   error |-> Exception("ValueError", "n_themes", Null)]
             ELSE [obj |-> [o EXCEPT !.themes = get_themes_by_bank(f, text_col, "bank_name", n, seed)],
                   ok |-> TRUE, fit |-> invoked, error |-> Null]

\* ', '.join(words)
RECURSIVE Join(_)
Join(words) ==
    IF Len(words) = 0 THEN <<>>
    ELSE IF Len(words) = 1 THEN words[1]
    ELSE words[1] \o <<",", " ">> \o Join(Tail(words))

\* themes.get(bank, [])
ThemesOf(th, bank) ==
    IF NotNull(bank) /\ Val(bank) \in DOMAIN th THEN th[Val(bank)] ELSE <<>>

\* pick_theme_for_row taking the theme of the group that the rating selects
pick_theme_by_rating(th, row) ==
    LET bank_themes == ThemesOf(th, Get(row, "bank_name"))
        k == IF NotNull(Get(row, "rating"))
             THEN ((Val(Get(row, "rating")) - 1) % Len(bank_themes)) + 1 ELSE 1
    IN  IF Len(bank_themes) = 0 THEN Null
        ELSE Some(Join(SubSeq(bank_themes[k], 1, Min(PrimaryKeywords, Len(bank_themes[k])))))

\* pick_theme_for_row without the [:5]
pick_theme_all_keywords(th, row) ==
    LET bank_themes == ThemesOf(th, Get(row, "bank_name"))
    IN  IF Len(bank_themes) = 0 THEN Null ELSE Some(Join(bank_themes[1]))

\* pick_theme_for_row giving '' instead of None for a group without themes
pick_theme_empty_string(th, row) ==
    LET bank_themes == ThemesOf(th, Get(row, "bank_name"))
    IN  IF Len(bank_themes) = 0 THEN Some(<<>>)
        ELSE Some(Join(SubSeq(bank_themes[1], 1, Min(PrimaryKeywords, Len(bank_themes[1])))))

pick_theme_for_row(th, row) ==
    LET bank_themes == ThemesOf(th, Get(row, "bank_name"))
    IN  IF Len(bank_themes) = 0 THEN Null
        ELSE Some(Join(SubSeq(bank_themes[1], 1, Min(PrimaryKeywords, Len(bank_themes[1])))))

\* AttachPrimaryTheme keeping only the reviews that got a theme
AttachPrimaryThemeDropsUnthemed(o) ==
    IF IsNull(o.df_processed) THEN Raised(o, NoneAccess)
    ELSE LET PickRow(row) == pick_theme_for_row(o.themes, row)
             Themed(row) == NotNull(row["identified_theme"])
             g == SetCol(Val(o.df_processed), "identified_theme", PickRow)
         IN  Returned([o EXCEPT !.df_processed = Some(Frame(g.cols, SelectSeq(g.rows, Themed)))])

AttachPrimaryTheme(o) ==
    IF IsNull(o.df_processed) THEN Raised(o, NoneAccess)
    ELSE LET PickRow(row) == pick_theme_for_row(o.themes, row)
         IN  Returned([o EXCEPT !.df_processed =
                          Some(SetCol(Val(o.df_processed), "identified_theme", PickRow))])

\* the scores of the rows idx of f that have one, added up
RECURSIVE SumScores(_, _)
SumScores(f, idx) ==
    IF idx = {} THEN 0
    ELSE LET i == CHOOSE j \in idx : TRUE
         IN  (IF NotNull(f.rows[i]["sentiment_score"])
              THEN Val(f.rows[i]["sentiment_score"]) ELSE 0) + SumScores(f, idx \ {i})

\* groupby(['bank_name', 'rating']).agg({'sentiment_score': 'mean',
\* 'review_text': 'count'}): a row without bank or rating is in no group, the
\* mean is over the scores that are not null (null when there is none, else
\* the fraction sum / n), count is the number of texts that are not null
Aggregate(f) ==
    LET Keyed == {i \in DOMAIN f.rows :
                     NotNull(f.rows[i]["bank_name"]) /\ NotNull(f.rows[i]["rating"])}
        Key(i) == <<Val(f.rows[i]["bank_name"]), Val(f.rows[i]["rating"])>>
        Of(k) == {i \in Keyed : Key(i) = k}
        Scored(k) == {i \in Of(k) : NotNull(f.rows[i]["sentiment_score"])}
    IN  {[bank_name |-> k[1],
          rating |-> k[2],
          sentiment_score |-> IF Scored(k) = {} THEN Null
                              ELSE Some([sum |-> SumScores(f, Scored(k)),
                                         n |-> Cardinality(Scored(k))]),
          count |-> Cardinality({i \in Of(k) : NotNull(f.rows[i]["review_text"])})]
         : k \in {Key(i) : i \in Keyed}}

AggregateSentimentByBankRating(o) ==
    IF IsNull(o.df_processed) THEN Raised(o, NoneAccess)
    ELSE Returned([o EXCEPT !.summary = Some(Aggregate(Val(o.df_processed)))])

\* SaveModels giving up at the first fit or dump that raises
SaveModelsAllOrNothing(o) ==
    IF ~env.joblib \/ (DOMAIN o.themes \cap env.unfit) # {} THEN [b \in {} |-> <<>>]
    ELSE LET f == Val(o.df_processed)
             text_col == IF "review_text_preprocessed" \in f.cols
                         THEN "review_text_preprocessed" ELSE "review_text"
             Texts(b) == {i \in DOMAIN f.rows :
                             f.rows[i]["bank_name"] = Some(b) /\ NotNull(f.rows[i][text_col])}
         IN  [b \in {c \in DOMAIN o.themes : Texts(c) # {} /\ ~RejectsNThemes(n_themes)} |->
                 [n_topics |-> n_themes, files |-> {"nmf", "tfidf"}]]

\* save_models: the files dumped, by bank.  Nothing without joblib; a bank
\* without texts is skipped; a fit or dump that raises is absorbed and saves
\* nothing for its bank.
SaveModels(o) ==
    IF ~env.joblib THEN [b \in {} |-> <<>>]
    ELSE LET f == Val(o.df_processed)
             text_col == IF "review_text_preprocessed" \in f.cols
                         THEN "review_text_preprocessed" ELSE "review_text"
             Texts(b) == {i \in DOMAIN f.rows :
                             f.rows[i]["bank_name"] = Some(b) /\ NotNull(f.rows[i][text_col])}
         IN  [b \in {c \in DOMAIN o.themes :
                        Texts(c) # {} /\ c \notin env.unfit /\ ~RejectsNThemes(n_themes)} |->
                 [n_topics |-> n_themes, files |-> {"nmf", "tfidf"}]]

SaveOutputs(o) ==
    IF IsNull(o.df_processed) THEN Raised(o, NoneAccess)
    ELSE LET f == Val(o.df_processed)
         IN  Returned([o EXCEPT
                 !.persisted = Some(f),
                 !.out =
                 Some([csv |-> to_csv(f),
                       themes |-> o.themes,
                       theme_counts |->
                           summarize_theme_counts(f, "bank_name", "identified_theme"),
                       models |-> SaveModels(o),
                       summary |-> Aggregate(f),
                       metrics |-> [total_reviews |-> NRows(f),
                                    sentiment_coverage |->
                                        evaluate_sentiment_coverage(f, "sentiment_score"),
                                    banks |-> DOMAIN o.themes]])])

\* run without its call of compute_sentiment
RunOrderSkipsSentiment == <<"load_data", "extract_themes",
                            "attach_primary_theme", "save_outputs">>

\* the statements of run, in order
RunOrder == <<"load_data", "compute_sentiment", "extract_themes",
              "attach_primary_theme", "save_outputs">>

\* one method call with the arguments a = [method, n_themes, propagates, seed]
Call(name, o, a) ==
    CASE name = "load_data" -> LoadData(o)
      [] name = "compute_sentiment" -> ComputeSentiment(o, a.method, a.propagates)
      [] name = "extract_themes" -> ExtractThemes(o, a.n_themes, a.seed)
      [] name = "attach_primary_theme" -> AttachPrimaryTheme(o)
      [] name = "save_outputs" -> SaveOutputs(o)
      [] name = "aggregate_sentiment_by_bank_rating" -> AggregateSentimentByBankRating(o)

\* The statements order[i..] executed one after the other; an exception ends
\* the sequence.  r = [obj, ok, fit, error, steps] is the outcome so far.
\* the outcome r followed by the statement `name` with the result s
Then(r, name, s) ==
    [obj |-> s.obj, ok |-> s.ok,
     fit |-> IF NotNull(s.fit) THEN s.fit ELSE r.fit,
     error |-> s.error,
     steps |-> Append(r.steps, [name |-> name, ok |-> s.ok])]

RECURSIVE Execute(_, _, _, _)
Execute(order, i, r, a) ==
    IF i > Len(order) \/ ~r.ok THEN r
    ELSE Execute(order, i + 1, Then(r, order[i], Call(order[i], r.obj, a)), a)

Start(o) == [obj |-> o, ok |-> TRUE, fit |-> Null, error |-> Null, steps |-> <<>>]

----------------------------------------------------------------------------
(* utils/preprocessor.py: ReviewPreprocessor *)

CriticalCols == {"review_text", "rating", "bank_name"}

\* prepare_final_output.output_columns
OutputColumns == {"review_id", "review_text", "rating", "review_date", "review_year",
                  "review_month", "bank_code", "bank_name", "user_name", "thumbs_up",
                  "text_length", "source"}

\* a date that pd.to_datetime cannot parse; every other date is the number
\* yyyymmdd
BadDate == -1

\* self.stats[k] = v
Put(st, k, v) == [j \in DOMAIN st \cup {k} |-> IF j = k THEN v ELSE st[j]]

\* the rows of f that satisfy Keep, in order
Filter(f, Keep(_)) == Frame(f.cols, SelectSeq(f.rows, Keep))

\* A step of process() leaves the object d = [df, stats] and returns or
\* raises.
Done(d) == [obj |-> d, ok |-> TRUE]
Failed(d) == [obj |-> d, ok |-> FALSE]

\* load_data: False when the file is absent or cannot be read
PrepLoadData(d, file) ==
    IF ~file.exists \/ ~file.readable THEN Failed(d)
    ELSE Done([df |-> Some(read_csv(file.frame)),
               stats |-> Put(d.stats, "original_count", NRows(file.frame))])

\* check_missing_data: KeyError when a critical column is not in the table
CheckMissingData(d) ==
    LET f == Val(d.df)
        missing == [c \in f.cols |->
                       Cardinality({i \in DOMAIN f.rows : IsNull(f.rows[i][c])})]
    IN  IF CriticalCols \subseteq f.cols
        THEN Done([d EXCEPT !.stats = Put(d.stats, "missing_before", missing)])
        ELSE Failed([d EXCEPT !.stats = Put(d.stats, "missing_before", missing)])

\* df[c] = df[c].fillna(v)
FillNa(f, c, v) ==
    Frame(f.cols, [i \in DOMAIN f.rows |->
                      [f.rows[i] EXCEPT ![c] = IF IsNull(f.rows[i][c]) THEN Some(v)
                                               ELSE f.rows[i][c]]])

\* handle_missing_values: KeyError when one of the filled columns is not in
\* the table
HandleMissingValues(d) ==
    LET f == Val(d.df)
        Complete(row) == \A c \in CriticalCols : NotNull(row[c])
        g == Filter(f, Complete)
    IN  IF ~({"user_name", "thumbs_up", "reply_content"} \subseteq f.cols)
        THEN Failed([d EXCEPT !.df = Some(g)])
        ELSE Done([df |-> Some(FillNa(FillNa(FillNa(g, "user_name", "Anonymous"),
                                             "thumbs_up", 0), "reply_content", "")),
                   stats |-> Put(Put(d.stats, "rows_removed_missing", NRows(f) - NRows(g)),
                                 "count_after_missing", NRows(g))])

\* normalize_dates: every exception is caught; the columns are added when
\* every date parses
NormalizeDates(d) ==
    LET f == Val(d.df)
        Year(row) == IF IsNull(row["review_date"]) THEN Null
                     ELSE Some(Val(row["review_date"]) \div 10000)
        Month(row) == IF IsNull(row["review_date"]) THEN Null
                      ELSE Some((Val(row["review_date"]) \div 100) % 100)
    IN  IF "review_date" \notin f.cols
           \/ \E i \in DOMAIN f.rows : f.rows[i]["review_date"] = Some(BadDate)
        THEN Done(d)
        ELSE Done([d EXCEPT !.df = Some(SetCol(SetCol(f, "review_year", Year),
                                               "review_month", Month))])

\* clean_review_text: '' for a null or empty text, else the text with every
\* run of white space replaced by one space, stripped
clean_review_text(x) ==
    IF IsNull(x) \/ Val(x) = <<>> THEN <<>> ELSE CollapseAndStrip(Val(x))

\* CleanReviewText keeping the reviews whose text is empty
CleanReviewTextKeepsEmpty(d) ==
    LET f == Val(d.df)
        Cleaned(row) == Some(clean_review_text(row["review_text"]))
        Length(row) == Some(Len(Val(row["review_text"])))
        g == SetCol(f, "review_text", Cleaned)
    IN  Done([df |-> Some(SetCol(g, "text_length", Length)),
              stats |-> Put(Put(d.stats, "empty_reviews_removed", 0),
                            "count_after_cleaning", NRows(g))])

\* clean_text
CleanReviewText(d) ==
    LET f == Val(d.df)
        Cleaned(row) == Some(clean_review_text(row["review_text"]))
        NonEmpty(row) == Len(Val(row["review_text"])) > 0
        Length(row) == Some(Len(Val(row["review_text"])))
        g == Filter(SetCol(f, "review_text", Cleaned), NonEmpty)
    IN  Done([df |-> Some(SetCol(g, "text_length", Length)),
              stats |-> Put(Put(d.stats, "empty_reviews_removed", NRows(f) - NRows(g)),
                            "count_after_cleaning", NRows(g))])

\* ValidateRatings counting the invalid ratings without removing them
ValidateRatingsCountsOnly(d) ==
    LET f == Val(d.df)
        Invalid(row) == Val(row["rating"]) < 1 \/ Val(row["rating"]) > 5
    IN  Done([df |-> Some(f),
              stats |-> Put(d.stats, "invalid_ratings_removed", NRows(Filter(f, Invalid)))])

\* validate_ratings
ValidateRatings(d) ==
    LET f == Val(d.df)
        Invalid(row) == Val(row["rating"]) < 1 \/ Val(row["rating"]) > 5
        Valid(row) == Val(row["rating"]) >= 1 /\ Val(row["rating"]) <= 5
    IN  Done([df |-> Some(IF NRows(Filter(f, Invalid)) > 0 THEN Filter(f, Valid) ELSE f),
              stats |-> Put(d.stats, "invalid_ratings_removed", NRows(Filter(f, Invalid)))])

\* bank codes in ascending order
BankCodes == <<"BOA", "CBE", "DASHEN">>
CodeRank(c) == CHOOSE k \in DOMAIN BankCodes : BankCodes[k] = c

\* prepare_final_output: the output columns that exist, the rows sorted by
\* bank_code ascending and review_date descending, nulls last, rows that
\* compare equal in their order; KeyError when a sort column is not there
PrepareFinalOutput(d) ==
    LET f == Project(Val(d.df), OutputColumns)
        Key(i, c) == f.rows[i][c]
        Less(i, j, c, up) ==
            /\ NotNull(Key(i, c))
            /\ \/ IsNull(Key(j, c))
               \/ IF c = "bank_code"
                  THEN CodeRank(Val(Key(i, c))) < CodeRank(Val(Key(j, c)))
                  ELSE IF up THEN Val(Key(i, c)) < Val(Key(j, c))
                       ELSE Val(Key(i, c)) > Val(Key(j, c))
        Precedes(i, j) ==
            \/ Less(i, j, "bank_code", TRUE)
            \/ /\ ~Less(j, i, "bank_code", TRUE)
               /\ \/ Less(i, j, "review_date", FALSE)
                  \/ ~Less(j, i, "review_date", FALSE) /\ i < j
        sorted == SortSeq([i \in DOMAIN f.rows |-> i], Precedes)
    IN  IF ~({"bank_code", "review_date"} \subseteq f.cols) THEN Failed([d EXCEPT !.df = Some(f)])
        ELSE Done([d EXCEPT !.df = Some(Frame(f.cols, [i \in DOMAIN f.rows |-> f.rows[sorted[i]]]))])

\* save_data as it ends when to_csv has not raised
SavedData(d) == Done([d EXCEPT !.stats = Put(d.stats, "final_count", NRows(Val(d.df)))])

----------------------------------------------------------------------------
(* The state machine *)

MethodArgs == {Null, Some("textblob")}

\* whether the exception of a row's cleaning may leave preprocess_dataframe
Propagations(d) ==
    IF NotNull(d) /\ PreprocessCanRaise(Val(d), "review_text") THEN BOOLEAN ELSE {FALSE}

\* n_themes as a caller passes it: not given, negative, zero, positive
NThemesArgs == {Null, Some(-1), Some(0), Some(1)}
\* the outcomes of one fit of the unseeded factorization
Seeds == {0, 1}
\* config['n_themes']: not given, or zero
ConfigNThemes == {Null, Some(0)}

NoArgs == [method |-> Null, n_themes |-> Null, propagates |-> FALSE, seed |-> 0]

\* the state after CustomerFeedbackPipeline(config), the file being src
Constructed(src) ==
    /\ source = src
    /\ cfg_n_themes \in ConfigNThemes
    /\ n_themes = (IF IsNull(cfg_n_themes) THEN DefaultNThemes ELSE Val(cfg_n_themes))
    /\ method = "vader"
    /\ df = Null
    /\ df_processed = Null
    /\ themes = EmptyThemes
    /\ out = Null
    /\ fit = Null
    /\ scored = FALSE
    /\ steps = <<>>
    /\ last = [op |-> "__init__", ok |-> TRUE]
    /\ calls = 0
    /\ summary = Null
    /\ error = Null
    /\ persisted = Null
    /\ reloaded = Null
    /\ earlier = Null

\* joblib is installed and every fit and dump of save_models succeeds
Installed == [joblib |-> TRUE, unfit |-> {}]

\* the other environments of save_models: without joblib, and with joblib
\* and the fits of one bank or of two banks raising
Envs == {[joblib |-> FALSE, unfit |-> {}]} \cup
        {[joblib |-> TRUE, unfit |-> u] : u \in {{banks[1]}, {banks[2], banks[3]}}}

\* no table has been given to the functions of utils/metrics.py directly
NoMetrics == table = Null /\ column = Null /\ fraction = Null /\ theme_counts = Null

MetricsUnchanged == UNCHANGED <<table, column, fraction, theme_counts>>

\* no ReviewPreprocessor has been made
NoPreprocessor ==
    raw_reviews = Null /\ preprocessor = Null /\ processed_reviews = Null

PreprocessorUnchanged == UNCHANGED <<raw_reviews, preprocessor, processed_reviews>>

\* no value has been given to clean_text and no table to the TextAnalyzer
NoCleaning ==
    /\ value = Null /\ cleaned = Null /\ recleaned = Null
    /\ corpus = Null /\ by_bank = Null
    /\ NoMetrics
    /\ NoPreprocessor

Init == NoCleaning /\ env = Installed /\ \E src \in Sources : Constructed(src)

\* the public call op ends with the outcome r
Commit(op, r) ==
    /\ calls' = calls + 1
    /\ df' = r.obj.df
    /\ df_processed' = r.obj.df_processed
    /\ themes' = r.obj.themes
    /\ out' = r.obj.out
    /\ fit' = r.fit
    /\ steps' = r.steps
    /\ scored' = (scored \/ \E i \in DOMAIN r.steps :
                                r.steps[i].name = "compute_sentiment" /\ r.steps[i].ok)
    /\ last' = [op |-> op, ok |-> r.ok]
    /\ summary' = r.obj.summary
    /\ persisted' = r.obj.persisted
    /\ error' = r.error
    /\ earlier' = (IF NotNull(fit) /\ last.ok /\ NotNull(r.fit) /\ r.ok
                   THEN Some([call |-> Val(fit), themes |-> themes]) ELSE Null)
    /\ UNCHANGED <<source, cfg_n_themes, n_themes, method, reloaded, value, cleaned,
                   recleaned, corpus, by_bank, env>>
    /\ MetricsUnchanged
    /\ PreprocessorUnchanged

\* a public call of the statements `order` with the arguments a
Invoke(op, order, a) ==
    /\ calls < MaxCalls
    /\ \E r \in {Execute(order, 1, Start(Self), a)} : Commit(op, r)

Direct(name, a) == Invoke(name, <<name>>, a)

load_data == Direct("load_data", NoArgs)

compute_sentiment ==
    \E m \in MethodArgs, p \in Propagations(df) :
        Direct("compute_sentiment", [NoArgs EXCEPT !.method = m, !.propagates = p])

extract_themes ==
    \E n \in NThemesArgs, s \in Seeds :
        Direct("extract_themes", [NoArgs EXCEPT !.n_themes = n, !.seed = s])

attach_primary_theme == Direct("attach_primary_theme", NoArgs)

save_outputs == Direct("save_outputs", NoArgs)

aggregate_sentiment_by_bank_rating ==
    Direct("aggregate_sentiment_by_bank_rating", NoArgs)

\* update_sentiments_from_csv.load_processed: the CSV save_outputs wrote if
\* there is one, else the file at the configured path, else FileNotFoundError
load_processed ==
    /\ calls < MaxCalls
    /\ calls' = calls + 1
    /\ steps' = <<>>
    /\ IF NotNull(out) \/ source.exists
       THEN /\ reloaded' = Some(read_csv(IF NotNull(out) THEN Val(out).csv
                                         ELSE source.frame))
            /\ last' = [op |-> "load_processed", ok |-> TRUE]
            /\ error' = Null
       ELSE /\ reloaded' = reloaded
            /\ last' = [op |-> "load_processed", ok |-> FALSE]
            /\ error' = Exception("FileNotFoundError", "Processed CSV not found", Null)
    /\ UNCHANGED <<source, cfg_n_themes, n_themes, method, df, df_processed, themes,
                   out, fit, scored, summary, persisted, value, cleaned, recleaned,
                   corpus, by_bank, earlier, env>>
    /\ MetricsUnchanged
    /\ PreprocessorUnchanged

run ==
    \E m \in MethodArgs, n \in NThemesArgs, p \in Propagations(LoadData(Self).obj.df),
       s \in Seeds :
        Invoke("run", RunOrder, [method |-> m, n_themes |-> n, propagates |-> p, seed |-> s])

Next ==
    \/ load_data
    \/ compute_sentiment
    \/ extract_themes
    \/ attach_primary_theme
    \/ save_outputs
    \/ aggregate_sentiment_by_bank_rating
    \/ load_processed
    \/ run

Spec == Init /\ [][Next]_vars

\* The values given to clean_text: None, a value that is not a string, the
\* text of scenario A, and the texts made of up to MaxFrags fragments
Fragments == {<<"A","b">>, <<"1">>, <<" ">>, <<"!">>, <<"\t">>,
              <<"h","t","t","p",":","/","/","x",".","c","o">>,
              <<"h","t","t","p","s",":","/","/">>}

ScenarioA == <<"L","o","g","i","n"," ","F","A","I","L","E","D","!","!"," ",
               "a","g","a","i","n"," ","h","t","t","p",":","/","/","x",".","c","o">>

RECURSIVE Flatten(_)
Flatten(ss) == IF ss = <<>> THEN <<>> ELSE Head(ss) \o Flatten(Tail(ss))

CleanInputs ==
    {Null, Some(NotAString), Some(ScenarioA)} \cup
    {Some(Flatten(fs)) : fs \in UNION {[1..n -> Fragments] : n \in 0..MaxFrags}}

InitClean ==
    /\ value \in CleanInputs
    /\ cleaned = Null
    /\ recleaned = Null
    /\ corpus = Null
    /\ by_bank = Null
    /\ NoMetrics
    /\ NoPreprocessor
    /\ cfg_n_themes = Null
    /\ env = Installed
    /\ Constructed(Absent)

PipelineUnchanged ==
    UNCHANGED <<source, cfg_n_themes, n_themes, method, df, df_processed, themes,
                out, fit, scored, steps, last, calls, summary, error, persisted,
                reloaded, earlier, env>>

\* cleaned = clean_text(value)
clean ==
    /\ cleaned = Null
    /\ cleaned' = Some(clean_text(value))
    /\ UNCHANGED <<value, recleaned, corpus, by_bank>>
    /\ MetricsUnchanged
    /\ PreprocessorUnchanged
    /\ PipelineUnchanged

\* recleaned = clean_text(cleaned)
reclean ==
    /\ NotNull(cleaned)
    /\ recleaned = Null
    /\ recleaned' = Some(clean_text(cleaned))
    /\ UNCHANGED <<value, cleaned, corpus, by_bank>>
    /\ MetricsUnchanged
    /\ PreprocessorUnchanged
    /\ PipelineUnchanged

NextClean ==
    \/ clean
    \/ reclean

SpecClean == InitClean /\ [][NextClean]_vars

\* The tables given to get_themes_by_bank: the generated reviews of every
\* size up to TestSampleN, and the files of the model as load_data loads them
Corpora ==
    {generate_sample_reviews(n) : n \in 0..TestSampleN} \cup
    {EnsureColumns(read_csv(f)) : f \in Files}

InitThemes ==
    /\ corpus \in {Some(f) : f \in Corpora}
    /\ by_bank = Null
    /\ value = Null /\ cleaned = Null /\ recleaned = Null
    /\ NoMetrics
    /\ NoPreprocessor
    /\ cfg_n_themes = Null
    /\ env = Installed
    /\ Constructed(Absent)

\* test_get_themes_by_bank_on_sample: TextAnalyzer().get_themes_by_bank(df,
\* text_col='review_text', bank_col='bank_name', n_themes=n)
analyze ==
    /\ by_bank = Null
    /\ \E n \in 1..MaxTopics, s \in Seeds :
          by_bank' = Some([n |-> n,
                           themes |-> get_themes_by_bank(Val(corpus), "review_text",
                                                         "bank_name", n, s)])
    /\ UNCHANGED <<corpus, value, cleaned, recleaned>>
    /\ MetricsUnchanged
    /\ PreprocessorUnchanged
    /\ PipelineUnchanged

NextThemes == analyze

SpecThemes == InitThemes /\ [][NextThemes]_vars

\* The tables given to evaluate_sentiment_coverage: n rows of which k have a
\* score, the first k (front) or the last k
ScoreTable(n, k, front) ==
    Frame({"review_id", "sentiment_score"},
          [i \in 1..n |->
              [review_id |-> Some(i),
               sentiment_score |-> IF (front /\ i <= k) \/ (~front /\ i > n - k)
                                   THEN Some(10 * i - 50) ELSE Null]])

ScoreTables ==
    {ScoreTable(n, k, front) : n \in 0..MaxRows, k \in 0..MaxRows, front \in BOOLEAN}

\* The tables given to summarize_theme_counts: up to MaxThemeRows rows, each
\* with no bank or one of two banks and with no theme, a theme, or a list or
\* tuple of themes; and the same without the bank column
ThemeA == <<"a","p","p">>
ThemeB == <<"p","a","y">>
ThemeCells == {Null, Some(ThemeA), Some(ThemeB),
               Some(ListOf(<<Some(ThemeA), Some(ThemeB)>>)),
               Some(ListOf(<<Some(ThemeA), Null, Some(ThemeA)>>))}
BankCells == {Null, Some(banks[1]), Some(banks[2])}

ThemeRows == {[bank_name |-> b, theme |-> t] : b \in BankCells, t \in ThemeCells}

ThemeTables ==
    LET full == {Frame({"bank_name", "theme"}, rs) :
                    rs \in UNION {[1..n -> ThemeRows] : n \in 0..MaxThemeRows}}
    IN  full \cup {Project(f, {"theme"}) : f \in full}

MetricsTables == ScoreTables \cup ThemeTables

\* the names given as score_col or theme_col: the defaults, and for each a
\* column the tables do not have
ScoreColumns == {"sentiment_score", "score"}
ThemeColumns == {"theme", "identified_theme"}

InitMetrics ==
    /\ table \in {Some(f) : f \in MetricsTables}
    /\ column \in {Some(c) : c \in ScoreColumns \cup ThemeColumns}
    /\ fraction = Null
    /\ theme_counts = Null
    /\ NoPreprocessor
    /\ value = Null /\ cleaned = Null /\ recleaned = Null
    /\ corpus = Null /\ by_bank = Null
    /\ cfg_n_themes = Null
    /\ env = Installed
    /\ Constructed(Absent)

\* fraction = evaluate_sentiment_coverage(table, column)
measure ==
    /\ fraction = Null
    /\ fraction' = Some(evaluate_sentiment_coverage(Val(table), Val(column)))
    /\ UNCHANGED <<table, column, theme_counts, value, cleaned, recleaned, corpus,
                   by_bank>>
    /\ PreprocessorUnchanged
    /\ PipelineUnchanged

\* theme_counts = summarize_theme_counts(table, 'bank_name', column)
summarize ==
    /\ theme_counts = Null
    /\ theme_counts' = Some(summarize_theme_counts(Val(table), "bank_name", Val(column)))
    /\ UNCHANGED <<table, column, fraction, value, cleaned, recleaned, corpus, by_bank>>
    /\ PreprocessorUnchanged
    /\ PipelineUnchanged

NextMetrics ==
    \/ measure
    \/ summarize

SpecMetrics == InitMetrics /\ [][NextMetrics]_vars

\* Running and saving in the environments Envs
InitSave == NoCleaning /\ env \in Envs /\ \E src \in Sources : Constructed(src)

NextSave ==
    \/ run
    \/ save_outputs

SpecSave == InitSave /\ [][NextSave]_vars

\* Loading and scoring alone, the file at data_path being present or absent
InitLoad ==
    NoCleaning /\ env = Installed /\ \E src \in Sources \cup {Absent} : Constructed(src)

NextLoad ==
    \/ load_data
    \/ compute_sentiment

SpecLoad == InitLoad /\ [][NextLoad]_vars

----------------------------------------------------------------------------
(* ReviewPreprocessor.process() *)

Spaced == <<" ","O","K"," "," ","a","p","p","\t">>
Blank == <<" ","\t">>
Plain == <<"p","a","y">>
Lines == <<"n","o","\n","\t","g","o">>

\* The kinds of rows of a raw file: sound rows whose text needs cleaning or
\* not, and rows without a text, with a blank text, without a rating, with a
\* rating below 1 or above 5, without a bank, with several of these defects,
\* with a date that does not parse, and without date and bank code.
RawRow(text, rating, bank, code, date, user) ==
    [review_text |-> text, rating |-> rating, bank_name |-> bank, bank_code |-> code,
     review_date |-> date, user_name |-> user, thumbs_up |-> Null,
     reply_content |-> Null, source |-> Some("Google Play")]

RawKinds == <<
    RawRow(Some(Spaced), Some(1), Some(banks[1]), Some("CBE"), Some(20240105), Null),
    RawRow(Some(Plain), Some(5), Some(banks[2]), Some("BOA"), Some(20240210), Some("u")),
    RawRow(Null, Some(3), Some(banks[1]), Some("CBE"), Some(20240105), Some("u")),
    RawRow(Some(Blank), Some(3), Some(banks[1]), Some("CBE"), Some(20231231), Null),
    RawRow(Some(Plain), Null, Some(banks[2]), Some("BOA"), Some(20240105), Some("u")),
    RawRow(Some(Plain), Some(0), Some(banks[1]), Some("CBE"), Some(20240105), Some("u")),
    RawRow(Some(Lines), Some(6), Some(banks[2]), Some("BOA"), Some(20240301), Null),
    RawRow(Some(Plain), Some(4), Null, Some("DASHEN"), Some(20240105), Some("u")),
    RawRow(Some(Blank), Some(6), Some(banks[1]), Some("CBE"), Some(20240105), Some("u")),
    RawRow(Null, Null, Null, Null, Null, Null),
    RawRow(Some(Lines), Some(2), Some(banks[3]), Some("DASHEN"), Some(BadDate), Some("u")),
    RawRow(Some(Spaced), Some(5), Some(banks[2]), Null, Null, Null) >>

RawColumns == {"review_id", "review_text", "rating", "bank_name", "bank_code",
               "review_date", "user_name", "thumbs_up", "reply_content", "source"}

\* the file whose i-th row is of the kind ks[i]
RawFrame(ks) ==
    Frame(RawColumns,
          [i \in DOMAIN ks |->
              [c \in RawColumns |-> IF c = "review_id" THEN Some(i) ELSE RawKinds[ks[i]][c]]])

RawFrames == {RawFrame(ks) : ks \in UNION {[1..n -> DOMAIN RawKinds] : n \in 0..MaxReviews}}

\* The file at input_path: a file of up to MaxReviews rows; the same without
\* one of the columns that process() reads; no file; a file that cannot be
\* read.
RawFiles ==
    {[exists |-> TRUE, readable |-> TRUE, frame |-> f] : f \in RawFrames} \cup
    {[exists |-> TRUE, readable |-> TRUE, frame |-> Project(RawFrame(<<1>>), RawColumns \ {c})] :
        c \in {"rating", "user_name", "bank_code"}} \cup
    {[exists |-> FALSE, readable |-> FALSE, frame |-> Frame({}, <<>>)],
     [exists |-> TRUE, readable |-> FALSE, frame |-> Frame({}, <<>>)]}

\* the statements of process(), in order
ProcessOrder == <<"load_data", "check_missing_data", "handle_missing_values",
                  "normalize_dates", "clean_text", "validate_ratings",
                  "prepare_final_output", "save_data", "generate_report">>

\* ReviewPreprocessor(input_path, output_path) and a call of process() that
\* has executed nothing yet: stage is the statement that comes next, 0 when
\* the call has ended; ran lists the statements executed with the number of
\* rows each left.
InitPrep ==
    /\ raw_reviews \in RawFiles
    /\ preprocessor = [df |-> Null, stats |-> [k \in {} |-> 0], stage |-> 1, ran |-> <<>>,
                       returned |-> Null, reported |-> FALSE]
    /\ processed_reviews = Null
    /\ NoMetrics
    /\ value = Null /\ cleaned = Null /\ recleaned = Null
    /\ corpus = Null /\ by_bank = Null
    /\ cfg_n_themes = Null
    /\ env = Installed
    /\ Constructed(Absent)

OnlyPreprocessor ==
    /\ UNCHANGED <<raw_reviews, value, cleaned, recleaned, corpus, by_bank>>
    /\ MetricsUnchanged
    /\ PipelineUnchanged

\* the rows of self.df, 0 while it is None
RowsOf(d) == IF IsNull(d.df) THEN 0 ELSE NRows(Val(d.df))

\* The statement k of process() ended with the result r: the next statement
\* follows when it returned, the exception leaves process() when it raised.
Proceeds(k, r) ==
    preprocessor' =
        [preprocessor EXCEPT
            !.df = r.obj.df,
            !.stats = r.obj.stats,
            !.ran = Append(@, [name |-> ProcessOrder[k], rows |-> RowsOf(r.obj)]),
            !.stage = IF r.ok THEN k + 1 ELSE 0,
            !.returned = IF r.ok THEN Null ELSE Some("raised")]

\* the view of the object that the methods work on
This == [df |-> preprocessor.df, stats |-> preprocessor.stats]

\* ReturnsFalse reporting success
ReturnsTrue(k, r) ==
    preprocessor' =
        [preprocessor EXCEPT
            !.df = r.obj.df,
            !.stats = r.obj.stats,
            !.ran = Append(@, [name |-> ProcessOrder[k], rows |-> RowsOf(r.obj)]),
            !.stage = 0,
            !.returned = Some("True")]

\* process() ending with `return False`: after load_data or save_data failed
ReturnsFalse(k, r) ==
    preprocessor' =
        [preprocessor EXCEPT
            !.df = r.obj.df,
            !.stats = r.obj.stats,
            !.ran = Append(@, [name |-> ProcessOrder[k], rows |-> RowsOf(r.obj)]),
            !.stage = 0,
            !.returned = Some("False")]

\* if not self.load_data(): return False
process_load_data ==
    /\ preprocessor.stage = 1
    /\ \E r \in {PrepLoadData(This, raw_reviews)} :
           IF r.ok THEN Proceeds(1, r) ELSE ReturnsFalse(1, r)
    /\ UNCHANGED processed_reviews
    /\ OnlyPreprocessor

process_check_missing_data ==
    /\ preprocessor.stage = 2
    /\ Proceeds(2, CheckMissingData(This))
    /\ UNCHANGED processed_reviews
    /\ OnlyPreprocessor

process_handle_missing_values ==
    /\ preprocessor.stage = 3
    /\ Proceeds(3, HandleMissingValues(This))
    /\ UNCHANGED processed_reviews
    /\ OnlyPreprocessor

process_normalize_dates ==
    /\ preprocessor.stage = 4
    /\ Proceeds(4, NormalizeDates(This))
    /\ UNCHANGED processed_reviews
    /\ OnlyPreprocessor

process_clean_text ==
    /\ preprocessor.stage = 5
    /\ Proceeds(5, CleanReviewText(This))
    /\ UNCHANGED processed_reviews
    /\ OnlyPreprocessor

process_validate_ratings ==
    /\ preprocessor.stage = 6
    /\ Proceeds(6, ValidateRatings(This))
    /\ UNCHANGED processed_reviews
    /\ OnlyPreprocessor

process_prepare_final_output ==
    /\ preprocessor.stage = 7
    /\ Proceeds(7, PrepareFinalOutput(This))
    /\ UNCHANGED processed_reviews
    /\ OnlyPreprocessor

\* if self.save_data(): ... ; return False.  Whether makedirs and to_csv
\* succeed is up to the file system.
process_save_data ==
    /\ preprocessor.stage = 8
    /\ \E writes \in BOOLEAN :
           IF writes
           THEN /\ processed_reviews' = Some(to_csv(Val(preprocessor.df)))
                /\ Proceeds(8, SavedData(This))
           ELSE /\ processed_reviews' = processed_reviews
                /\ ReturnsFalse(8, Failed(This))
    /\ OnlyPreprocessor

\* self.generate_report(); return True
process_generate_report ==
    /\ preprocessor.stage = 9
    /\ preprocessor' =
           [preprocessor EXCEPT
               !.ran = Append(@, [name |-> "generate_report", rows |-> RowsOf(This)]),
               !.stage = 0,
               !.returned = Some("True"),
               !.reported = TRUE]
    /\ UNCHANGED processed_reviews
    /\ OnlyPreprocessor

NextPrep ==
    \/ process_load_data
    \/ process_check_missing_data
    \/ process_handle_missing_values
    \/ process_normalize_dates
    \/ process_clean_text
    \/ process_validate_ratings
    \/ process_prepare_final_output
    \/ process_save_data
    \/ process_generate_report

SpecPrep == InitPrep /\ [][NextPrep]_vars

----------------------------------------------------------------------------
(* Properties *)

\* a step of the last call
Step(name) == {i \in DOMAIN steps : steps[i].name = name}
Executed(name) == Step(name) # {}
Completed(name) == \E i \in Step(name) : steps[i].ok

\* rows of f with a score, and the 90% gate on them
NonNullScores(f) ==
    IF "sentiment_score" \in f.cols
    THEN Cardinality({i \in DOMAIN f.rows : f.rows[i]["sentiment_score"] # <<>>})
    ELSE 0
Covers90(f) == Len(f.rows) > 0 /\ 10 * NonNullScores(f) >= 9 * Len(f.rows)

\* C1: run() executes load_data, compute_sentiment, extract_themes,
\* attach_primary_theme, save_outputs in this order, each at most once and
\* each only after the one before it has returned; it returns exactly when
\* all five have returned, and only then has it persisted a dataset that
\* was loaded, scored, themed and theme-attached.
C1_RunOrder ==
    last.op = "run" =>
        LET order == <<"load_data", "compute_sentiment", "extract_themes",
                       "attach_primary_theme", "save_outputs">>
        IN  /\ Len(steps) \in 1..5
            /\ \A i \in DOMAIN steps : steps[i].name = order[i]
            /\ \A i \in DOMAIN steps : i < Len(steps) => steps[i].ok
            /\ ~steps[Len(steps)].ok => ~last.ok
            /\ last.ok <=> (Len(steps) = 5 /\ steps[5].ok)
            /\ Executed("save_outputs") =>
                   /\ NotNull(out)
                   /\ {"sentiment_score", "sentiment_label", "identified_theme"}
                          \subseteq Val(out).csv.cols
                   /\ Covers90(Val(out).csv)

C1_Witness == last.op = "run" /\ last.ok /\ Len(steps) = 5

\* C2: a call of compute_sentiment that reaches the scoring returns exactly
\* when at least 90% of the rows of the scored dataset have a score, and
\* raises otherwise.
C2_CoverageGate ==
    \A i \in Step("compute_sentiment") :
        steps[i].ok <=> (NotNull(df_processed) /\ Covers90(Val(df_processed)))

C2_Witness ==
    /\ last.op = "compute_sentiment"
    /\ ~last.ok
    /\ NotNull(df_processed)
    /\ NonNullScores(Val(df_processed)) > 0

\* C3: whatever the sequence of calls, a dataset written by save_outputs has
\* a sentiment coverage of at least 90%.
C3_NoDegradedOutput == NotNull(out) => Covers90(Val(out).csv)

\* C4: extract_themes, attach_primary_theme and save_outputs return only if
\* an earlier compute_sentiment on the same object has returned.
C4_ThemedNeedsScored ==
    \A name \in {"extract_themes", "attach_primary_theme", "save_outputs"} :
        Completed(name) => scored

\* words[1..n] separated by a comma and a space
RECURSIVE CommaSeparated(_, _)
CommaSeparated(words, n) ==
    IF n = 0 THEN <<>>
    ELSE IF n = 1 THEN words[1]
    ELSE CommaSeparated(words, n - 1) \o <<",", " ">> \o words[n]

\* the themes of the group of a row, none for an unknown group
GroupThemes(row) ==
    IF row["bank_name"] # <<>> /\ row["bank_name"][1] \in DOMAIN themes
    THEN themes[row["bank_name"][1]] ELSE <<>>

Attached == Completed("attach_primary_theme")

\* C5: after attach_primary_theme, a review whose group has a theme has as
\* identified_theme the first min(5, k) keywords of the first theme of its
\* group, in order, joined with ", ".
C5_PrimaryTheme ==
    Attached =>
        \A i \in DOMAIN Val(df_processed).rows :
            LET row == Val(df_processed).rows[i]
                th == GroupThemes(row)
            IN  th # <<>> =>
                    row["identified_theme"] =
                        <<CommaSeparated(th[1], IF Len(th[1]) < 5 THEN Len(th[1]) ELSE 5)>>

\* a review of a group with two themes, the first of more than 5 keywords
C5_Witness ==
    /\ Attached
    /\ \E i \in DOMAIN Val(df_processed).rows :
          LET th == GroupThemes(Val(df_processed).rows[i])
          IN  Len(th) >= 2 /\ Len(th[1]) > 5 /\ th[1] # th[2]

\* C6: after attach_primary_theme, identified_theme is null exactly for the
\* reviews whose group has no themes.
C6_NullIffNoThemes ==
    Attached =>
        \A i \in DOMAIN Val(df_processed).rows :
            LET row == Val(df_processed).rows[i]
            IN  (row["identified_theme"] = <<>>) <=> (GroupThemes(row) = <<>>)

\* a dataset with a review of a group mapped to [] and a review with a theme
C6_Witness ==
    /\ Attached
    /\ \E i, j \in DOMAIN Val(df_processed).rows :
          LET ri == Val(df_processed).rows[i]
              rj == Val(df_processed).rows[j]
          IN  /\ ri["bank_name"] # <<>>
              /\ ri["bank_name"][1] \in DOMAIN themes
              /\ themes[ri["bank_name"][1]] = <<>>
              /\ ri["identified_theme"] = <<>>
              /\ rj["identified_theme"] # <<>>

\* the n_themes a call asked for: its argument, or the configured one
Asked == IF fit[1].requested # <<>> THEN fit[1].requested[1] ELSE n_themes

\* C7: the theme extractor is invoked only with a positive number of
\* themes, the one that was asked for.
C7_InvalidNThemesRejected ==
    NotNull(fit) => (Asked > 0 /\ fit[1].used = Asked)

\* C8: after extract_themes, no group has more themes than were asked for
\* and no theme more than 8 keywords.
C8_ThemeBounds ==
    Completed("extract_themes") =>
        \A b \in DOMAIN themes :
            /\ Len(themes[b]) <= Asked
            /\ \A j \in DOMAIN themes[b] : Len(themes[b][j]) <= 8

C9_WitnessColumns ==
    /\ last.op = "load_data"
    /\ source.exists
    /\ "rating" \notin source.frame.cols
    /\ Len(Val(df).rows) > 0

\* C10: after the cleaning of compute_sentiment, a review whose cleaning
\* raised has its raw text as review_text_preprocessed and every other
\* review its cleaned text.
C10_RowFailureIsolated ==
    (NotNull(df) /\ "review_text_preprocessed" \in Val(df).cols) =>
        \A i \in DOMAIN Val(df).rows :
            LET row == Val(df).rows[i]
                raw == row["review_text"]
            IN  row["review_text_preprocessed"] =
                    IF raw # <<>> /\ BadChar \in Range(raw[1]) THEN raw
                    ELSE IF raw = <<>> THEN << <<>> >>
                    ELSE <<CleanString(raw[1])>>

\* the reviews of f with bank b and rating r
ReviewsOf(f, b, r) ==
    {i \in DOMAIN f.rows : f.rows[i]["bank_name"] = <<b>> /\ f.rows[i]["rating"] = <<r>>}

RECURSIVE SumCounts(_)
SumCounts(rows) ==
    IF rows = {} THEN 0
    ELSE LET x == CHOOSE y \in rows : TRUE IN x.count + SumCounts(rows \ {x})

Aggregated == last.op = "aggregate_sentiment_by_bank_rating" /\ last.ok

\* C11: the table aggregate_sentiment_by_bank_rating returns has exactly one
\* row per (bank_name, rating) pair among the reviews; its count is the
\* number of reviews of that pair and its sentiment_score the mean of their
\* scores; the counts add up to the number of reviews.
C11_SummaryRows ==
    Aggregated =>
        LET f == df_processed[1]
            S == summary[1]
        IN  /\ \A i \in DOMAIN f.rows :
                   (f.rows[i]["bank_name"] # <<>> /\ f.rows[i]["rating"] # <<>>) =>
                       Cardinality({x \in S : /\ <<x.bank_name>> = f.rows[i]["bank_name"]
                                               /\ <<x.rating>> = f.rows[i]["rating"]}) = 1
            /\ \A x \in S :
                   LET of == ReviewsOf(f, x.bank_name, x.rating)
                       sc == {i \in of : f.rows[i]["sentiment_score"] # <<>>}
                   IN  /\ of # {}
                       /\ x.count = Cardinality(of)
                       /\ IF sc = {} THEN x.sentiment_score = <<>>
                          ELSE /\ x.sentiment_score # <<>>
                               /\ x.sentiment_score[1].sum * Cardinality(sc) =
                                      x.sentiment_score[1].n * SumScores(f, sc)
            /\ SumCounts(S) = Len(f.rows)

Derived == {"review_text_preprocessed", "sentiment_score", "sentiment_label",
            "identified_theme"}

\* the table d holds the reviews of the source, in order and with their
\* values, and besides their columns only the derived ones
Enriches(d) ==
    d # <<>> =>
        LET f == d[1]
            src == source.frame
            req == {"review_text", "rating", "bank_name"}
        IN  /\ Len(f.rows) = Len(src.rows)
            /\ src.cols \subseteq f.cols
            /\ f.cols \subseteq src.cols \cup req \cup Derived
            /\ \A i \in DOMAIN f.rows :
                   /\ \A c \in src.cols : f.rows[i][c] = src.rows[i][c]
                   /\ \A c \in req \ src.cols : f.rows[i][c] = <<>>

RECURSIVE WordsFrom(_, _, _, _)
WordsFrom(s, i, cur, breaks) ==
    LET done == IF cur = <<>> THEN <<>> ELSE <<cur>>
    IN  IF i > Len(s) THEN done
        ELSE LET n == SchemeLenAt(s, i)
                 e == NextSpace(s, i + n)
             IN  IF n > 0 /\ e > i + n THEN WordsFrom(s, e, cur, breaks)
                 ELSE IF s[i] \in WhiteSpace THEN done \o WordsFrom(s, i + 1, <<>>, breaks)
                 ELSE IF IsAlnumLower(s[i]) THEN WordsFrom(s, i + 1, Append(cur, s[i]), breaks)
                 ELSE IF breaks THEN done \o WordsFrom(s, i + 1, <<>>, breaks)
                 ELSE WordsFrom(s, i + 1, cur, breaks)

RECURSIVE SpaceJoined(_)
SpaceJoined(words) ==
    IF words = <<>> THEN <<>>
    ELSE IF Len(words) = 1 THEN words[1]
    ELSE words[1] \o <<" ">> \o SpaceJoined(Tail(words))

\* lower-case letters, digits and single interior spaces only
OnlyCanonicalChars(t) ==
    /\ \A i \in DOMAIN t : IsAlnumLower(t[i]) \/ t[i] = " "
    /\ t # <<>> => (t[1] # " " /\ t[Len(t)] # " ")
    /\ \A i \in 1..(Len(t) - 1) : ~(t[i] = " " /\ t[i + 1] = " ")

\* clean_text gave the canonical form of the value
CleanedAs(breaks) ==
    cleaned # <<>> =>
        IF value = <<>> \/ value[1] = NotAString THEN cleaned[1] = <<>>
        ELSE /\ cleaned[1] = SpaceJoined(WordsFrom(Lower(value[1]), 1, <<>>, breaks))
             /\ OnlyCanonicalChars(cleaned[1])
             /\ value[1] = ScenarioA =>
                    cleaned[1] = <<"l","o","g","i","n"," ","f","a","i","l","e","d"," ",
                                   "a","g","a","i","n">>

\* C13 as stated: a null or non-string value cleans to '', a string to its
\* lower-cased text with every URL and every character that is not a
\* letter, a digit or white space deleted, white space collapsed and
\* trimmed.
C13_CleanDeletes == CleanedAs(FALSE)

\* C13 amended: as C13, except that a character that is not a lower-case
\* letter, a digit or white space is replaced by a space, so that it
\* separates the words it stands between.
C13_CleanReplaces == CleanedAs(TRUE)

\* a text with a punctuation mark between two letters or digits was cleaned
C13_Witness ==
    /\ cleaned # <<>>
    /\ value # <<>>
    /\ value[1] # NotAString
    /\ \E i \in 2..(Len(value[1]) - 1) :
          /\ value[1][i] = "!"
          /\ IsAlnumLower(LowerChar(value[1][i - 1]))
          /\ IsAlnumLower(LowerChar(value[1][i + 1]))

\* C14: cleaning a cleaned value again gives the same text.
C14_Idempotent == recleaned # <<>> => recleaned = cleaned

\* a text that its cleaning changed was cleaned twice
C14_Witness ==
    /\ recleaned # <<>>
    /\ value = <<ScenarioA>>
    /\ cleaned # value

\* C15: in the scored dataset every review with a score has the label
\* positive, neutral or negative, and two reviews with equal scores have
\* equal labels, wherever they stand.
C15_LabelOfScore ==
    df_processed # <<>> =>
        LET rows == df_processed[1].rows
        IN  /\ \A i \in DOMAIN rows :
                   rows[i]["sentiment_score"] # <<>> =>
                       rows[i]["sentiment_label"] \in
                           {<<"positive">>, <<"neutral">>, <<"negative">>}
            /\ \A i, j \in DOMAIN rows :
                   (rows[i]["sentiment_score"] # <<>> /\
                    rows[i]["sentiment_score"] = rows[j]["sentiment_score"]) =>
                       rows[i]["sentiment_label"] = rows[j]["sentiment_label"]

\* two reviews with the same score follow reviews with other scores, and
\* every label occurs
C15_Witness ==
    /\ df_processed # <<>>
    /\ LET rows == df_processed[1].rows
       IN  /\ \E i, j \in DOMAIN rows :
                  /\ i > 1 /\ j > i
                  /\ rows[i]["sentiment_score"] # <<>>
                  /\ rows[i]["sentiment_score"] = rows[j]["sentiment_score"]
                  /\ rows[i - 1]["sentiment_score"] # rows[j - 1]["sentiment_score"]
           /\ \A l \in {"positive", "neutral", "negative"} :
                  \E i \in DOMAIN rows : rows[i]["sentiment_label"] = <<l>>

\* C16: the table save_outputs wrote has the columns of the source and the
\* four derived columns, whatever calls came before.
C16_PersistedColumns ==
    out # <<>> => (source.frame.cols \cup Derived) \subseteq out[1].csv.cols

\* the bank names of the rows of f
BankNames(f) ==
    {f.rows[i]["bank_name"][1] : i \in {j \in DOMAIN f.rows : f.rows[j]["bank_name"] # <<>>}}

\* C17: of what one save_outputs wrote, total_reviews is the number of rows
\* of the dataset, sentiment_coverage the fraction of them with a score, and
\* the banks of the metrics are the keys of the theme mapping and the
\* distinct bank_name values of the dataset.
C17_ArtifactsConsistent ==
    out # <<>> =>
        LET w == out[1]
        IN  /\ w.metrics.total_reviews = Len(w.csv.rows)
            /\ w.metrics.sentiment_coverage.num * Len(w.csv.rows) =
                   NonNullScores(w.csv) * w.metrics.sentiment_coverage.den
            /\ w.metrics.banks = DOMAIN w.themes
            /\ w.metrics.banks = BankNames(w.csv)

\* load_processed read the file the last save_outputs wrote
Reloaded == last.op = "load_processed" /\ last.ok /\ out # <<>>

\* C18: the table read back from the CSV save_outputs wrote has the reviews
\* that were persisted, each review_id with the sentiment_label and the
\* identified_theme it had in memory, null where it was null and only there.
C18_RoundTrip ==
    Reloaded =>
        LET before == persisted[1].rows
            after == reloaded[1].rows
        IN  /\ Len(after) = Len(before)
            /\ \A i \in DOMAIN before :
                   \A c \in {"review_id", "sentiment_label", "identified_theme"} :
                       Get(after[i], c) = Get(before[i], c)

\* compute_sentiment scored the dataset and raised
GateFailed ==
    /\ df_processed # <<>>
    /\ \E i \in Step("compute_sentiment") : ~steps[i].ok

\* C20: when the coverage gate fails, the exception the caller gets names
\* the sentiment coverage threshold and carries the coverage that was
\* measured, as a percentage with two decimals.
C20_FailureReportsCoverage ==
    GateFailed =>
        /\ error # <<>>
        /\ error[1].kind = "AssertionError"
        /\ error[1].message = "Sentiment coverage below required threshold"
        /\ error[1].measured # <<>>
        /\ LET rows == Len(df_processed[1].rows)
               exact == 10000 * NonNullScores(df_processed[1])
               shown == error[1].measured[1] * rows
           IN  IF rows = 0 THEN error[1].measured[1] = 0
               ELSE 2 * (IF shown >= exact THEN shown - exact ELSE exact - shown) <= rows

\* a run stopped by the gate with a coverage of 80%
C20_Witness ==
    /\ GateFailed
    /\ last.op = "run"
    /\ error = <<[kind |-> "AssertionError",
                  message |-> "Sentiment coverage below required threshold",
                  measured |-> <<8000>>]>>

\* C19: get_themes_by_bank returns one key per distinct bank of the table
\* and for each at most n_themes themes; a bank without a text maps to the
\* empty list, every bank with a text gets a theme; the 30 generated
\* reviews of 3 banks give, with n_themes = 2, 3 keys with at most 2 themes
\* each.
C19_ThemesByBank ==
    by_bank # <<>> =>
        LET f == corpus[1]
            th == by_bank[1].themes
            HasText(b) == \E i \in DOMAIN f.rows :
                              /\ f.rows[i]["bank_name"] = <<b>>
                              /\ f.rows[i]["review_text"] \notin {<<>>, << <<>> >>}
        IN  /\ DOMAIN th = BankNames(f)
            /\ \A b \in DOMAIN th :
                   /\ Len(th[b]) <= by_bank[1].n
                   /\ HasText(b) => Len(th[b]) >= 1
                   /\ ~HasText(b) => th[b] = <<>>
            /\ (Len(f.rows) = 30 /\ Cardinality(BankNames(f)) = 3 /\ by_bank[1].n = 2) =>
                   /\ Cardinality(DOMAIN th) = 3
                   /\ \A b \in DOMAIN th : Len(th[b]) <= 2

\* scenario C: 30 generated reviews of 3 banks, n_themes = 2
C19_Witness ==
    /\ by_bank # <<>>
    /\ by_bank[1].n = 2
    /\ Len(corpus[1].rows) = 30
    /\ Cardinality(DOMAIN by_bank[1].themes) = 3
    /\ \A b \in DOMAIN by_bank[1].themes : Len(by_bank[1].themes[b]) = 2

\* a bank without a text, next to banks with themes
C19_WitnessEmptyGroup ==
    /\ by_bank # <<>>
    /\ \E b, c \in DOMAIN by_bank[1].themes :
          by_bank[1].themes[b] = <<>> /\ by_bank[1].themes[c] # <<>>


\* the last call and the call before it both extracted themes, from the same
\* banks and texts and with the same number of themes
ExtractedTwice ==
    /\ earlier # <<>>
    /\ fit # <<>>
    /\ last.ok
    /\ fit[1].on = earlier[1].call.on
    /\ fit[1].used = earlier[1].call.used

\* C21: two extractions on the same dataset with the same configuration
\* (method, n_themes, seed) give the same theme mapping: the same groups,
\* the same themes in the same order, the same keywords in the same order.
C21_SameThemesTwice == ExtractedTwice => themes = earlier[1].themes


\* C22: evaluate_sentiment_coverage returns the number of rows with a score
\* that is not null divided by the number of rows, a value between 0 and 1;
\* 0.0 when the table has no such column or no rows; the divisor is never
\* zero.
C22_Coverage ==
    fraction # <<>> =>
        LET f == table[1]
            c == fraction[1]
        IN  /\ c.den > 0
            /\ 0 <= c.num /\ c.num <= c.den
            /\ IF column[1] \notin f.cols \/ Len(f.rows) = 0 THEN c.num = 0
               ELSE c.num * Len(f.rows) =
                        c.den * Cardinality({i \in DOMAIN f.rows : f.rows[i][column[1]] # <<>>})

\* a table of which some rows have a score and some have none was measured
C22_Witness ==
    /\ fraction # <<>>
    /\ column[1] \in table[1].cols
    /\ \E i, j \in DOMAIN table[1].rows :
          table[1].rows[i][column[1]] = <<>> /\ table[1].rows[j][column[1]] # <<>>


\* the dataset in memory has no rows
EmptyLoaded == df # <<>> /\ Len(df[1].rows) = 0

\* C23: an empty dataset never passes the coverage gate: compute_sentiment
\* on a dataset without rows raises with a measured coverage of 0, and a
\* run on an empty file ends there, without extract_themes and save_outputs.
C23_EmptyNeverPasses ==
    /\ \A i \in Step("compute_sentiment") :
           EmptyLoaded =>
               /\ ~steps[i].ok
               /\ ~last.ok
               /\ error # <<>>
               /\ error[1].kind = "AssertionError"
               /\ error[1].measured = <<0>>
    /\ (last.op = "run" /\ Len(source.frame.rows) = 0) =>
           /\ ~last.ok
           /\ Len(steps) = 2
           /\ ~Executed("extract_themes")
           /\ ~Executed("attach_primary_theme")
           /\ ~Executed("save_outputs")

\* a run on a file without rows was stopped by the gate
C23_Witness ==
    /\ last.op = "run"
    /\ Len(source.frame.rows) = 0
    /\ EmptyLoaded
    /\ df_processed # <<>>
    /\ ~last.ok


\* C24: after attach_primary_theme two reviews of the same bank have the
\* same identified_theme, whatever their text, rating and sentiment; two
\* reviews of banks with the same list of themes have the same one too, and
\* a review of a bank that the mapping does not know has none.
C24_ThemeOfBankOnly ==
    Attached =>
        LET rows == df_processed[1].rows
            Known(i) == rows[i]["bank_name"] # <<>> /\ rows[i]["bank_name"][1] \in DOMAIN themes
        IN  \A i, j \in DOMAIN rows :
                /\ rows[i]["bank_name"] = rows[j]["bank_name"] =>
                       rows[i]["identified_theme"] = rows[j]["identified_theme"]
                /\ (Known(i) /\ Known(j) /\
                    themes[rows[i]["bank_name"][1]] = themes[rows[j]["bank_name"][1]]) =>
                       rows[i]["identified_theme"] = rows[j]["identified_theme"]
                /\ ~Known(i) => rows[i]["identified_theme"] = <<>>

\* two reviews of one bank that differ in text, rating and score have a
\* theme, out of several of their bank, and a review of another bank has
\* another theme
C24_Witness ==
    /\ Attached
    /\ \E i, j, k \in DOMAIN df_processed[1].rows :
          LET ri == df_processed[1].rows[i]
              rj == df_processed[1].rows[j]
              rk == df_processed[1].rows[k]
          IN  /\ ri["bank_name"] = rj["bank_name"]
              /\ ri["review_text"] # rj["review_text"]
              /\ ri["rating"] # rj["rating"]
              /\ ri["sentiment_score"] # rj["sentiment_score"]
              /\ ri["identified_theme"] # <<>>
              /\ Len(GroupThemes(ri)) >= 2
              /\ rk["bank_name"] # ri["bank_name"]
              /\ rk["identified_theme"] \notin {<<>>, ri["identified_theme"]}


\* C25: the topic models a run persists are fit with the number of topics
\* that its extract_themes used for the persisted theme mapping, also when
\* run is given an n_themes other than the configured one.
C25_ModelsAsExtracted ==
    (last.op = "run" /\ last.ok) =>
        \A b \in DOMAIN out[1].models : out[1].models[b].n_topics = fit[1].used


\* the themes of a cell that are not null: a theme, or the elements of a
\* list or tuple, as <<position, theme>>
ThemesIn(cell) ==
    IF cell = <<>> THEN {}
    ELSE IF Len(cell[1]) > 0 /\ cell[1][1] = "<list>"
         THEN {<<k, cell[1][k][1]>> : k \in {l \in 2..Len(cell[1]) : cell[1][l] # <<>>}}
         ELSE {<<0, cell[1]>>}

RECURSIVE SumOfCounts(_)
SumOfCounts(S) ==
    IF S = {} THEN 0
    ELSE LET x == CHOOSE y \in S : TRUE IN x.count + SumOfCounts(S \ {x})

\* C27: summarize_theme_counts returns one row per (bank, theme) pair that
\* occurs, with the number of occurrences of the theme in the bank that are
\* not null, an element of a list or tuple counting once; the counts add up
\* to the number of theme occurrences that are not null; without the bank
\* or the theme column, or without any theme, the table is empty.
C27_ThemeCounts ==
    theme_counts # <<>> =>
        LET f == table[1]
            c == column[1]
            S == theme_counts[1]
            Has == "bank_name" \in f.cols /\ c \in f.cols
            Occ == IF Has THEN {<<i, t>> : i \in DOMAIN f.rows, t \in
                                    UNION {ThemesIn(f.rows[j][c]) : j \in DOMAIN f.rows}}
                   ELSE {}
            Occurs == {o \in Occ : o[2] \in ThemesIn(f.rows[o[1]][c])}
            In(b, t) == {o \in Occurs : f.rows[o[1]]["bank_name"] = <<b>> /\ o[2][2] = t}
        IN  /\ ~Has => S = {}
            /\ Occurs = {} => S = {}
            /\ \A x, y \in S : (x.bank = y.bank /\ x.theme = y.theme) => x = y
            /\ \A x \in S : x.count >= 1 /\ x.count = Cardinality(In(x.bank, x.theme))
            /\ \A o \in Occurs :
                   f.rows[o[1]]["bank_name"] # <<>> =>
                       \E x \in S : <<x.bank>> = f.rows[o[1]]["bank_name"] /\ x.theme = o[2][2]
            /\ SumOfCounts(S) = Cardinality(Occurs)


\* the last call executed save_outputs on a scored dataset
SaveAttempted == Executed("save_outputs") /\ df_processed # <<>>

\* C26: save_models never aborts the persistence.  Whether joblib is
\* missing, a bank has no text or the fit or dump of a bank raises,
\* save_outputs returns and has written the dataset, the theme mapping, the
\* summary, the metrics and the theme counts; without joblib no model is
\* saved, with it the banks whose fit raises have none and every other bank
\* with texts has one.
C26_SavingNeverAborts ==
    SaveAttempted =>
        /\ Completed("save_outputs")
        /\ out # <<>>
        /\ {"csv", "themes", "summary", "metrics", "theme_counts"} \subseteq DOMAIN out[1]
        /\ Len(out[1].csv.rows) = Len(df_processed[1].rows)
        /\ out[1].themes = themes
        /\ LET saved == DOMAIN out[1].models
               f == df_processed[1]
               WithText(b) == \E i \in DOMAIN f.rows :
                                  /\ f.rows[i]["bank_name"] = <<b>>
                                  /\ f.rows[i]["review_text_preprocessed"] # <<>>
           IN  /\ saved \subseteq DOMAIN themes
               /\ ~env.joblib => saved = {}
               /\ saved \cap env.unfit = {}
               /\ (env.joblib /\ n_themes > 0) =>
                      \A b \in DOMAIN themes : (b \notin env.unfit /\ WithText(b)) => b \in saved

\* the fit of one bank raised and the model of another bank was saved
C26_Witness ==
    /\ SaveAttempted
    /\ last.op = "run"
    /\ env.joblib
    /\ (DOMAIN themes \cap env.unfit) # {}
    /\ out # <<>>
    /\ DOMAIN out[1].models # {}


\* process() has returned True
Processed == preprocessor # <<>> /\ preprocessor.returned = <<"True">>

\* the statements process() has executed, by name
Ran(name) == \E i \in DOMAIN preprocessor.ran : preprocessor.ran[i].name = name

\* C28: after process() has returned True every row of the saved dataset
\* has a review_text, a rating and a bank_name that are not null; the text
\* is not empty, does not begin or end with white space and has no two
\* white space characters in a row; the rating is between 1 and 5.
C28_SavedRowsClean ==
    Processed =>
        /\ processed_reviews # <<>>
        /\ \A i \in DOMAIN processed_reviews[1].rows :
               LET row == processed_reviews[1].rows[i]
                   t == row["review_text"][1]
               IN  /\ row["review_text"] # <<>>
                   /\ row["rating"] # <<>>
                   /\ row["bank_name"] # <<>>
                   /\ Len(t) > 0
                   /\ t[1] \notin {" ", "\t", "\n"}
                   /\ t[Len(t)] \notin {" ", "\t", "\n"}
                   /\ \A j \in 1..(Len(t) - 1) :
                          ~(t[j] \in {" ", "\t", "\n"} /\ t[j + 1] \in {" ", "\t", "\n"})
                   /\ row["rating"][1] >= 1
                   /\ row["rating"][1] <= 5

\* of two raw rows one was removed and the text of the other was cleaned
C28_Witness ==
    /\ Processed
    /\ Len(raw_reviews.frame.rows) = 2
    /\ Len(processed_reviews[1].rows) = 1
    /\ processed_reviews[1].rows[1]["review_text"] = << <<"O","K"," ","a","p","p">> >>

\* C29: when load_data fails, because the file is not there or cannot be
\* read, process() returns False, has executed no other statement and has
\* written no file; process() returns True only when save_data has written
\* the file; generate_report runs only after save_data has.
C29_FailureStopsProcess ==
    preprocessor # <<>> =>
        /\ (Ran("load_data") /\ ~(raw_reviews.exists /\ raw_reviews.readable)) =>
               /\ preprocessor.returned = <<"False">>
               /\ Len(preprocessor.ran) = 1
               /\ preprocessor.df = <<>>
               /\ processed_reviews = <<>>
               /\ ~preprocessor.reported
        /\ preprocessor.returned = <<"True">> =>
               /\ Ran("save_data")
               /\ processed_reviews # <<>>
               /\ Len(processed_reviews[1].rows) = Len(preprocessor.df[1].rows)
        /\ (preprocessor.reported \/ Ran("generate_report")) =>
               /\ processed_reviews # <<>>
               /\ \E i, j \in DOMAIN preprocessor.ran :
                      /\ i < j
                      /\ preprocessor.ran[i].name = "save_data"
                      /\ preprocessor.ran[j].name = "generate_report"
        /\ (Ran("save_data") /\ processed_reviews = <<>>) =>
               /\ preprocessor.returned = <<"False">>
               /\ ~preprocessor.reported

\* process() returned False on a file that cannot be read
C29_Witness ==
    /\ preprocessor # <<>>
    /\ raw_reviews.exists
    /\ ~raw_reviews.readable
    /\ preprocessor.returned = <<"False">>

\* C30: after a successful process() the statistics conserve the rows:
\* original_count - rows_removed_missing - empty_reviews_removed -
\* invalid_ratings_removed = final_count, the number of rows saved; and no
\* statement of process() leaves more rows than the one before it.
C30_RowsConserved ==
    preprocessor # <<>> =>
        /\ \A i, j \in DOMAIN preprocessor.ran :
               i < j => preprocessor.ran[j].rows <= preprocessor.ran[i].rows
        /\ preprocessor.returned = <<"True">> =>
               LET st == preprocessor.stats
               IN  /\ {"original_count", "rows_removed_missing", "empty_reviews_removed",
                        "invalid_ratings_removed", "final_count"} \subseteq DOMAIN st
                   /\ st["original_count"] - st["rows_removed_missing"]
                          - st["empty_reviews_removed"] - st["invalid_ratings_removed"]
                      = st["final_count"]
                   /\ st["original_count"] = Len(raw_reviews.frame.rows)
                   /\ st["final_count"] = Len(processed_reviews[1].rows)

\* a row without a text and a row with a rating above 5 were removed
C30_Witness ==
    /\ Processed
    /\ preprocessor.stats["rows_removed_missing"] > 0
    /\ preprocessor.stats["invalid_ratings_removed"] > 0

====
